---- MODULE Spec2Model ----
(***************************************************************************)
(* Model of the feed-ingestion core of DataFloren_ReeRiter:                *)
(*   - the SQLite store of database.py (feeds, processed_entries,          *)
(*     articles, paywall_hits) and its operations,                         *)
(*   - the paywall heuristic of rss_monitor.py,                            *)
(*   - the ingestion loop of main.py.                                      *)
(* Text values are finite sequences of tokens; a token stands for one      *)
(* character or for a fixed run of characters (the scheme prefix of a      *)
(* url).  Timestamps are whole days on the clock "now".                    *)
(***************************************************************************)
EXTENDS Integers, Sequences, FiniteSets, TLC

VARIABLES db, now, op, ret, prompt, conn_call, wp, sessions, key_call, import_call,
          content_in, pw_out,
          pc, pass, active_feeds, fi, entries, ei, entry_content, fixture,
          wp_cache, work, marked_before, finished, run,
          fetch_call,
          doc_in, extract_out

store_vars == <<db, now, op, ret>>
paywall_vars == <<content_in, pw_out>>
loop_vars == <<pc, pass, active_feeds, fi, entries, ei, entry_content, fixture,
               wp_cache, work, marked_before, finished, run>>
fetch_vars == <<fetch_call>>
extract_vars == <<doc_in, extract_out>>
call_vars == <<prompt, conn_call, wp, sessions, key_call, import_call>>
vars == <<db, now, op, ret, prompt, conn_call, wp, sessions, key_call, import_call,
          content_in, pw_out,
          pc, pass, active_feeds, fi, entries, ei, entry_content, fixture,
          wp_cache, work, marked_before, finished, run,
          fetch_call, doc_in, extract_out>>

----------------------------------------------------------------------------
(* Bounds of the model *)
MaxFeedSeq == 2      \* feed rows ever created
MaxEntrySeq == 2     \* processed_entries rows created since the table was made
MaxHitRows == 2      \* paywall_hits rows ever created
MaxArticleSeq == 2   \* article rows ever created

(* SQL NULL / Python None, one per column type *)
NULL == "NULL"
NoId == 0
NoTime == -1

----------------------------------------------------------------------------
(* Text: tokens, ordering, case folding, strip *)

\* byte order of the first byte of each token (SQLite BINARY collation)
TokRank(t) ==
  CASE t = " " -> 0
    [] t = "A" -> 1
    [] t = "B" -> 2
    [] t = "HTTP://" -> 3
    [] t = "a" -> 4
    [] t = "b" -> 5
    [] t = "ftp://" -> 6
    [] t = "http://" -> 7
    [] t = "E-acute" -> 8
    [] t = "e-acute" -> 9
    [] OTHER -> 10

RECURSIVE TextLess(_, _)
TextLess(s, t) ==
  IF s = << >> THEN t # << >>
  ELSE IF t = << >> THEN FALSE
  ELSE IF TokRank(s[1]) # TokRank(t[1]) THEN TokRank(s[1]) < TokRank(t[1])
  ELSE TextLess(Tail(s), Tail(t))

\* SQLite LOWER(): folds the ASCII letters only
sql_lower_tok(t) ==
  CASE t = "A" -> "a"
    [] t = "B" -> "b"
    [] t = "HTTP://" -> "http://"
    [] OTHER -> t

sql_lower(s) == [i \in DOMAIN s |-> sql_lower_tok(s[i])]

\* str.lower(): folds every cased letter
py_lower_tok(t) == IF t = "E-acute" THEN "e-acute" ELSE sql_lower_tok(t)

py_lower(s) == [i \in DOMAIN s |-> py_lower_tok(s[i])]

RECURSIVE lstrip(_)
lstrip(s) == IF s # << >> /\ s[1] = " " THEN lstrip(Tail(s)) ELSE s

RECURSIVE rstrip(_)
rstrip(s) ==
  IF s # << >> /\ s[Len(s)] = " " THEN rstrip(SubSeq(s, 1, Len(s) - 1)) ELSE s

strip(s) == rstrip(lstrip(s))

startswith_http(s) == s # << >> /\ s[1] \in {"http://", "https://"}

----------------------------------------------------------------------------
(* The store: one SQLite file.  db is its committed content. *)

EmptyDb ==
  [ feeds |-> << >>, feed_seq |-> 0,
    processed_entries |-> {}, pe_seq |-> 0,
    articles |-> {}, article_seq |-> 0,
    paywall_hits |-> {}, hit_seq |-> 0 ]

Ret(ok, id) == [ok |-> ok, id |-> id]

FeedIds(d) == DOMAIN d.feeds

\* columns of processed_entries, as created by _init_db
processed_entries_columns ==
  <<"id", "feed_id", "entry_id", "title", "link", "published_at", "processed_at">>

column_mapping ==
  [c \in {"id", "feed_id", "entry_url", "title", "published_at", "processed_at"} |->
     IF c = "entry_url" THEN "link" ELSE c]

\* value of a column the INSERT does not name
column_default(c, t) ==
  CASE c \in {"id", "feed_id"} -> NoId
    [] c = "processed_at" -> t
    [] OTHER -> NULL

IsMapped(c) == c \in DOMAIN column_mapping

\* the row that INSERT ... (new_cols) SELECT old_cols builds from row r
migrate_row(r, t) ==
  LET old_cols == SelectSeq(processed_entries_columns, IsMapped)
      new_cols == [i \in DOMAIN old_cols |-> column_mapping[old_cols[i]]]
  IN  [c \in {processed_entries_columns[i] : i \in DOMAIN processed_entries_columns} |->
         IF \E i \in DOMAIN new_cols : new_cols[i] = c
         THEN r[old_cols[CHOOSE i \in DOMAIN new_cols : new_cols[i] = c]]
         ELSE column_default(c, t)]

\* INSERT OR IGNORE of one row into a table with entry_id TEXT UNIQUE NOT NULL
insert_or_ignore(rows, r) ==
  IF r.entry_id = NULL \/ (\E q \in rows : q.entry_id = r.entry_id \/ q.id = r.id)
  THEN rows
  ELSE rows \cup {r}

RECURSIVE migrate_rows(_, _, _)
migrate_rows(old, new, t) ==
  IF old = {} THEN new
  ELSE LET r == CHOOSE x \in old : \A y \in old : x.id <= y.id
       IN  migrate_rows(old \ {r}, insert_or_ignore(new, migrate_row(r, t)), t)

MaxIdOf(rows) ==
  IF rows = {} THEN 0 ELSE CHOOSE m \in {r.id : r \in rows} : \A r \in rows : r.id <= m

\* Database._init_db on a file that this program created before
init_db(d, t) ==
  LET new == migrate_rows(d.processed_entries, {}, t)
  IN  [d EXCEPT !.processed_entries = new, !.pe_seq = MaxIdOf(new)]

is_entry_processed(d, entry_id) ==
  \E r \in d.processed_entries : r.entry_id = entry_id

add_feed(d, url_arg, name, locked) ==
  IF url_arg = << >> \/ strip(url_arg) = << >> THEN [db |-> d, ret |-> Ret(FALSE, NoId)]
  ELSE
    LET url == strip(url_arg)
        existing == {i \in FeedIds(d) : sql_lower(d.feeds[i].url) = sql_lower(url)}
    IN  IF locked THEN [db |-> d, ret |-> Ret(FALSE, NoId)]
        ELSE IF existing # {}
        THEN [db |-> d,
              ret |-> Ret(TRUE, CHOOSE i \in existing : \A j \in existing : i <= j)]
        ELSE IF ~startswith_http(url) THEN [db |-> d, ret |-> Ret(FALSE, NoId)]
        ELSE IF \E i \in FeedIds(d) : d.feeds[i].url = url
        THEN [db |-> d, ret |-> Ret(FALSE, NoId)]
        ELSE
          LET id == d.feed_seq + 1
              row == [url |-> url,
                      name |-> IF name = << >> THEN url ELSE name,
                      is_active |-> TRUE, is_paywalled |-> FALSE,
                      last_fetch |-> NoTime,
                      paywall_hits |-> 0, last_paywall_hit |-> NoTime]
          IN  [db |-> [d EXCEPT !.feeds = d.feeds @@ (id :> row), !.feed_seq = id],
               ret |-> Ret(TRUE, id)]

IsSortedByName(d, s) ==
  \A i, j \in DOMAIN s : i < j => ~TextLess(d.feeds[s[j]].name, d.feeds[s[i]].name)

SeqsOf(S) ==
  {s \in [1..Cardinality(S) -> S] : \A i, j \in 1..Cardinality(S) : i # j => s[i] # s[j]}

\* every list the query may return (rows with equal names come in any order)
get_active_feeds(d) ==
  {s \in SeqsOf({i \in FeedIds(d) : d.feeds[i].is_active}) : IsSortedByName(d, s)}

\* mark_entry_processed that stamps the feed without inserting the row
mark_entry_processed_stamp_only(d, feed_id, entry_id, title, link, published_at, t, locked) ==
  IF locked THEN [db |-> d, ret |-> Ret(FALSE, NoId)]
  ELSE
    LET updated == {i \in FeedIds(d) : i = feed_id}
    IN  [db |-> [d EXCEPT !.feeds =
                   [i \in FeedIds(d) |->
                      IF i \in updated THEN [d.feeds[i] EXCEPT !.last_fetch = t]
                      ELSE d.feeds[i]]],
         ret |-> Ret(Cardinality(updated) > 0, NoId)]

\* mark_entry_processed that stamps the feed only when the row is new
mark_entry_processed_stamp_if_new(d, feed_id, entry_id, title, link, published_at, t, locked) ==
  IF locked THEN [db |-> d, ret |-> Ret(FALSE, NoId)]
  ELSE
    LET row == [id |-> d.pe_seq + 1, feed_id |-> feed_id, entry_id |-> entry_id,
                title |-> title, link |-> link, published_at |-> published_at,
                processed_at |-> t]
        rows == insert_or_ignore(d.processed_entries, row)
        d1 == [d EXCEPT !.processed_entries = rows,
                        !.pe_seq = IF row \in rows THEN row.id ELSE @]
        updated == {i \in FeedIds(d) : i = feed_id /\ row \in rows}
        d2 == [d1 EXCEPT !.feeds =
                 [i \in FeedIds(d) |->
                    IF i \in updated THEN [d.feeds[i] EXCEPT !.last_fetch = t]
                    ELSE d.feeds[i]]]
    IN  [db |-> d2, ret |-> Ret(Cardinality(updated) > 0, NoId)]

mark_entry_processed(d, feed_id, entry_id, title, link, published_at, t, locked) ==
  IF locked THEN [db |-> d, ret |-> Ret(FALSE, NoId)]
  ELSE
    LET row == [id |-> d.pe_seq + 1, feed_id |-> feed_id, entry_id |-> entry_id,
                title |-> title, link |-> link, published_at |-> published_at,
                processed_at |-> t]
        rows == insert_or_ignore(d.processed_entries, row)
        d1 == [d EXCEPT !.processed_entries = rows,
                        !.pe_seq = IF row \in rows THEN row.id ELSE @]
        updated == {i \in FeedIds(d) : i = feed_id}
        d2 == [d1 EXCEPT !.feeds =
                 [i \in FeedIds(d) |->
                    IF i \in updated THEN [d.feeds[i] EXCEPT !.last_fetch = t]
                    ELSE d.feeds[i]]]
        rowcount == Cardinality(updated)
    IN  [db |-> d2, ret |-> Ret(rowcount > 0, NoId)]

\* is_active / is_paywalled arguments: "None", "True" or "False"
update_feed_status(d, feed_id, is_active, is_paywalled, locked) ==
  IF locked THEN [db |-> d, ret |-> Ret(FALSE, NoId)]
  ELSE IF feed_id \notin FeedIds(d) THEN [db |-> d, ret |-> Ret(FALSE, NoId)]
  ELSE
    LET f0 == d.feeds[feed_id]
        f1 == IF is_active # "None" THEN [f0 EXCEPT !.is_active = (is_active = "True")] ELSE f0
        f2 == IF is_paywalled # "None"
              THEN [f1 EXCEPT !.is_paywalled = (is_paywalled = "True")] ELSE f1
    IN  [db |-> [d EXCEPT !.feeds[feed_id] = f2], ret |-> Ret(TRUE, NoId)]

\* record_paywall_hit that appends the row and leaves the counter alone
record_paywall_hit_row_only(d, feed_id, article_url, t, locked) ==
  IF locked THEN [db |-> d, raised |-> TRUE]
  ELSE
    LET hit == [id |-> d.hit_seq + 1, feed_id |-> feed_id, url |-> article_url,
                hit_date |-> t]
    IN  [db |-> [d EXCEPT !.paywall_hits = d.paywall_hits \cup {hit}, !.hit_seq = hit.id],
         raised |-> FALSE]

record_paywall_hit(d, feed_id, article_url, t, locked) ==
  IF locked THEN [db |-> d, raised |-> TRUE]
  ELSE
    LET hit == [id |-> d.hit_seq + 1, feed_id |-> feed_id, url |-> article_url,
                hit_date |-> t]
        d1 == [d EXCEPT !.paywall_hits = d.paywall_hits \cup {hit}, !.hit_seq = hit.id]
        d2 == [d1 EXCEPT !.feeds =
                 [i \in FeedIds(d) |->
                    IF i = feed_id
                    THEN [d.feeds[i] EXCEPT !.paywall_hits = @ + 1, !.last_paywall_hit = t]
                    ELSE d.feeds[i]]]
    IN  [db |-> d2, raised |-> FALSE]

get_recent_paywall_hits(d, feed_id, days, t) ==
  Cardinality({h \in d.paywall_hits : h.feed_id = feed_id /\ h.hit_date >= t - days})

\* mark_feed_as_paywalled that forgets to deactivate the feed
mark_feed_as_paywalled_flag_only(d, feed_id, locked) ==
  IF locked THEN [db |-> d, ret |-> Ret(FALSE, NoId)]
  ELSE
    [db |-> [d EXCEPT !.feeds =
               [i \in FeedIds(d) |->
                  IF i = feed_id THEN [d.feeds[i] EXCEPT !.is_paywalled = TRUE]
                  ELSE d.feeds[i]]],
     ret |-> Ret(TRUE, NoId)]

mark_feed_as_paywalled(d, feed_id, locked) ==
  IF locked THEN [db |-> d, ret |-> Ret(FALSE, NoId)]
  ELSE
    [db |-> [d EXCEPT !.feeds =
               [i \in FeedIds(d) |->
                  IF i = feed_id
                  THEN [d.feeds[i] EXCEPT !.is_paywalled = TRUE, !.is_active = FALSE]
                  ELSE d.feeds[i]]],
     ret |-> Ret(TRUE, NoId)]

\* remove_feed that leaves the feed's paywall hits behind
remove_feed_keep_hits(d, feed_id, locked) ==
  IF locked THEN [db |-> d, ret |-> Ret(FALSE, NoId)]
  ELSE IF feed_id \notin FeedIds(d) THEN [db |-> d, ret |-> Ret(FALSE, NoId)]
  ELSE
    LET d1 == [d EXCEPT !.articles = {a \in d.articles : a.feed_id # feed_id}]
        d2 == [d1 EXCEPT !.processed_entries =
                 {r \in d1.processed_entries : r.feed_id # feed_id}]
        d4 == [d2 EXCEPT !.feeds = [i \in FeedIds(d2) \ {feed_id} |-> d2.feeds[i]]]
    IN  [db |-> d4, ret |-> Ret(TRUE, NoId)]

remove_feed(d, feed_id, locked) ==
  IF locked THEN [db |-> d, ret |-> Ret(FALSE, NoId)]
  ELSE IF feed_id \notin FeedIds(d) THEN [db |-> d, ret |-> Ret(FALSE, NoId)]
  ELSE
    LET d1 == [d EXCEPT !.articles = {a \in d.articles : a.feed_id # feed_id}]
        d2 == [d1 EXCEPT !.processed_entries =
                 {r \in d1.processed_entries : r.feed_id # feed_id}]
        d3 == [d2 EXCEPT !.paywall_hits = {h \in d2.paywall_hits : h.feed_id # feed_id}]
        d4 == [d3 EXCEPT !.feeds = [i \in FeedIds(d3) \ {feed_id} |-> d3.feeds[i]]]
    IN  [db |-> d4, ret |-> Ret(TRUE, NoId)]

save_article(d, url, content, feed_id, locked) ==
  IF locked THEN [db |-> d, ret |-> Ret(FALSE, NoId)]
  ELSE
    LET row == [id |-> d.article_seq + 1, feed_id |-> feed_id, url |-> url,
                content |-> content, processed |-> 0, wordpress_post_id |-> NULL]
    IN  [db |-> [d EXCEPT !.articles = {a \in d.articles : a.url # url} \cup {row},
                          !.article_seq = row.id],
         ret |-> Ret(TRUE, NoId)]

----------------------------------------------------------------------------
(* The store driven by its callers: one action per operation *)

Urls ==
  { <<"http://", "a">>, <<"HTTP://", "A">>,
    <<"http://", "e-acute">>, <<"http://", "E-acute">>,
    <<" ", "http://", "a">>, <<" ">> }

Names == { <<"A">>, << >> }
EntryIds == {"e1", "e2"}
Links == {"l1", "l2"}
FeedIdArgs == 1..MaxFeedSeq
Tri == {"None", "True", "False"}

\* the last call: its name, its arguments, whether the store was locked, and
\* "fresh": whether the call found its target in the state it is meant for
Op(name, feed, entry, url, locked, fresh) ==
  [name |-> name, feed |-> feed, entry |-> entry, url |-> url, locked |-> locked,
   fresh |-> fresh]

HasChildren(d, f) ==
  /\ \E a \in d.articles : a.feed_id = f
  /\ \E r \in d.processed_entries : r.feed_id = f
  /\ \E h \in d.paywall_hits : h.feed_id = f

\* the outcome of the entry the loop handled last
Finished(link, result, fault, hit, inserted) ==
  [link |-> link, result |-> result, fault |-> fault, hit |-> hit, inserted |-> inserted]

NoneFinished == Finished(NULL, "none", FALSE, FALSE, FALSE)

\* no _fetch_url call has been made
FetchIdle ==
  fetch_call =
          [pc |-> "idle", is_feed |-> TRUE, attempt |-> 0, ua |-> "desktop",
           events |-> << >>, result |-> "pending", calls |-> 0, ua_before |-> ""]

\* _handle_paywall has not run
NoPrompt == [asked |-> FALSE, recent |-> 0]

\* no store operation is waiting for its connection
NoConnCall ==
  [pc |-> "idle", op |-> "", attempt |-> 0, sleeps |-> << >>, result |-> "pending",
   calls |-> 0]

WpUrls == {"u1", "u2"}
NoPost == 0

\* what the last create_post call was given, whether it sent the request
\* that creates a post, and the post it returned (NoPost for None)
PosterCall(url, has_title, requested, returned) ==
  [url |-> url, has_title |-> has_title, requested |-> requested, returned |-> returned]

\* a WordPressPoster with an empty cache and a site without posts: cache is
\* self.cache, file is wordpress_cache.json, remote the posts on the site,
\* created every post ever made there
NewPoster ==
  [cache |-> [u \in WpUrls |-> NoPost], file |-> [u \in WpUrls |-> NoPost],
   remote |-> {}, created |-> {}, next_id |-> 1, calls |-> 0,
   last |-> PosterCall("", FALSE, FALSE, NoPost)]

\* the counters import_feeds_from_csv starts with
NoStats == [total |-> 0, added |-> 0, duplicates |-> 0, failed |-> 0]

\* no file has been imported
NoImport == [csv |-> << >>, before |-> << >>, stats |-> NoStats, created |-> 0,
             existed |-> 0, imports |-> 0, clean |-> TRUE]

\* no feed item has been given a dedup key
NoKeyCall == [raw |-> << >>, keys |-> << >>]

\* the connections that may call add_feed at the same time
Conns == {1, 2}

\* a connection that is not inside add_feed
IdleSession == [pc |-> "idle", url |-> << >>, name |-> << >>, calls |-> 0]

CallsIdle ==
  /\ prompt = NoPrompt /\ conn_call = NoConnCall /\ wp = NewPoster
  /\ sessions = [c \in Conns |-> IdleSession]
  /\ key_call = NoKeyCall
  /\ import_call = NoImport

\* no document is being extracted
ExtractIdle == doc_in = << >> /\ extract_out = << >>

\* the ingestion loop is not running
LoopIdle ==
  /\ pc = "idle" /\ pass = 0 /\ active_feeds = << >> /\ fi = 0
  /\ entries = << >> /\ ei = 0 /\ entry_content = << >> /\ fixture = << >>
  /\ wp_cache = {} /\ work = {} /\ marked_before = {}
  /\ finished = NoneFinished
  /\ run = [fault |-> FALSE, feeds_changed |-> FALSE, restarted |-> FALSE]

StoreInit ==
  /\ LoopIdle /\ FetchIdle /\ ExtractIdle
  /\ db = EmptyDb
  /\ now = 0
  /\ op = Op("init", NoId, NULL, << >>, FALSE, FALSE)
  /\ ret = Ret(TRUE, NoId)
  /\ CallsIdle
  /\ content_in = << >>
  /\ pw_out = "pending"

AddFeed ==
  \E u \in Urls, n \in Names, locked \in BOOLEAN :
    /\ db.feed_seq < MaxFeedSeq
    /\ LET r == add_feed(db, u, n, locked)
       IN  db' = r.db /\ ret' = r.ret
    /\ op' = Op("add_feed", NoId, NULL, u, locked, FALSE)
    /\ UNCHANGED <<call_vars, now, paywall_vars, fetch_vars, extract_vars, loop_vars>>

MarkEntryProcessed ==
  \E f \in FeedIdArgs, e \in EntryIds, locked \in BOOLEAN :
    /\ db.pe_seq < MaxEntrySeq
    /\ LET r == mark_entry_processed(db, f, e, "t", e, NULL, now, locked)
       IN  db' = r.db /\ ret' = r.ret
    /\ op' = Op("mark_entry_processed", f, e, << >>, locked, ~is_entry_processed(db, e))
    /\ UNCHANGED <<call_vars, now, paywall_vars, fetch_vars, extract_vars, loop_vars>>

UpdateFeedStatus ==
  \E f \in FeedIdArgs, a \in Tri, p \in Tri, locked \in BOOLEAN :
    /\ LET r == update_feed_status(db, f, a, p, locked)
       IN  db' = r.db /\ ret' = r.ret
    /\ op' = Op("update_feed_status", f, NULL, << >>, locked, FALSE)
    /\ UNCHANGED <<call_vars, now, paywall_vars, fetch_vars, extract_vars, loop_vars>>

MarkFeedAsPaywalled ==
  \E f \in FeedIdArgs, locked \in BOOLEAN :
    /\ LET r == mark_feed_as_paywalled(db, f, locked)
       IN  db' = r.db /\ ret' = r.ret
    /\ op' = Op("mark_feed_as_paywalled", f, NULL, << >>, locked,
                f \in FeedIds(db) /\ db.feeds[f].is_active /\ ~db.feeds[f].is_paywalled)
    /\ UNCHANGED <<call_vars, now, paywall_vars, fetch_vars, extract_vars, loop_vars>>

RemoveFeed ==
  \E f \in FeedIdArgs, locked \in BOOLEAN :
    /\ LET r == remove_feed(db, f, locked)
       IN  db' = r.db /\ ret' = r.ret
    /\ op' = Op("remove_feed", f, NULL, << >>, locked, HasChildren(db, f))
    /\ UNCHANGED <<call_vars, now, paywall_vars, fetch_vars, extract_vars, loop_vars>>

RecordPaywallHit ==
  \E f \in FeedIdArgs, l \in {"l1"}, locked \in BOOLEAN :
    /\ db.hit_seq < MaxHitRows
    /\ LET r == record_paywall_hit(db, f, l, now, locked)
       IN  db' = r.db /\ ret' = Ret(~r.raised, NoId)
    /\ op' = Op("record_paywall_hit", f, NULL, << >>, locked, FALSE)
    /\ UNCHANGED <<call_vars, now, paywall_vars, fetch_vars, extract_vars, loop_vars>>

SaveArticle ==
  \E f \in FeedIdArgs, l \in Links, locked \in BOOLEAN :
    /\ db.article_seq < MaxArticleSeq
    /\ LET r == save_article(db, l, 1, f, locked)
       IN  db' = r.db /\ ret' = r.ret
    /\ op' = Op("save_article", f, NULL, << >>, locked, FALSE)
    /\ UNCHANGED <<call_vars, now, paywall_vars, fetch_vars, extract_vars, loop_vars>>

\* a new Database object on the same file: __init__ runs _init_db again
Reopen ==
  /\ db' = init_db(db, now)
  /\ ret' = Ret(TRUE, NoId)
  /\ op' = Op("init_db", NoId, NULL, << >>, FALSE, db.processed_entries # {})
  /\ UNCHANGED <<call_vars, now, paywall_vars, fetch_vars, extract_vars, loop_vars>>

FeedsNext ==
  \/ AddFeed
  \/ UpdateFeedStatus
  \/ MarkFeedAsPaywalled
  \/ RemoveFeed

\* administration of the feed list (main.py --add-feed, --remove-feed, ...)
SpecFeeds == StoreInit /\ [][FeedsNext]_vars

\* a store that already holds two feeds
RowsInit ==
  /\ LoopIdle /\ FetchIdle /\ ExtractIdle
  /\ db = add_feed(add_feed(EmptyDb, <<"http://", "a">>, <<"A">>, FALSE).db,
                   <<"http://", "e-acute">>, << >>, FALSE).db
  /\ now = 0
  /\ op = Op("init", NoId, NULL, << >>, FALSE, FALSE)
  /\ ret = Ret(TRUE, NoId)
  /\ CallsIdle
  /\ content_in = << >>
  /\ pw_out = "pending"

RowsNext ==
  \/ MarkEntryProcessed
  \/ RecordPaywallHit
  \/ SaveArticle
  \/ RemoveFeed
  \/ Reopen

\* the rows that hang off the feeds, across restarts of the program
SpecRows == RowsInit /\ [][RowsNext]_vars

----------------------------------------------------------------------------
(* Properties of the store *)

Range(s) == {s[i] : i \in DOMAIN s}

RowsOfOthers(rows, f) == {r \in rows : r.feed_id # f}

\* C1: re-opening the store (a new Database on the same file runs _init_db
\* again) loses no processed entry: every entry id that is_entry_processed
\* reported before the re-open is still reported afterwards.
C1_ReopenKeepsProcessed ==
  [][op'.name = "init_db" =>
       \A e \in EntryIds : is_entry_processed(db, e) => is_entry_processed(db', e)]_vars

\* C2: after mark_entry_processed(f, id, ...) there is exactly one
\* processed_entries row for id, and the call returns true exactly when it
\* inserted the row (true the first time, false the second time).
C2_MarkTwiceOneRowSecondFalse ==
  (op.name = "mark_entry_processed" /\ ~op.locked) =>
     /\ Cardinality({r \in db.processed_entries : r.entry_id = op.entry}) = 1
     /\ ret.ok = op.fresh

\* C6: add_feed is idempotent per url whatever the letter case: the store
\* never holds two feed rows whose urls differ only in case, a feed url is
\* accepted in every casing, and adding a re-casing of a stored url returns
\* the stored row's id and changes nothing.
C6_AddFeedAnyCasing ==
  [][/\ \A i, j \in FeedIds(db') :
          py_lower(db'.feeds[i].url) = py_lower(db'.feeds[j].url) => i = j
     /\ (op'.name = "add_feed" /\ ~op'.locked) =>
          /\ startswith_http(py_lower(strip(op'.url))) => ret'.ok
          /\ \A i \in FeedIds(db) :
               py_lower(db.feeds[i].url) = py_lower(strip(op'.url)) =>
                 ret'.id = i /\ db' = db]_vars

\* C7: get_active_feeds returns exactly the feeds with active = true and
\* paywalled = false, ordered by name.
C7_ActiveFeedsExcludePaywalled ==
  \A s \in get_active_feeds(db) :
    /\ Range(s) = {i \in FeedIds(db) : db.feeds[i].is_active /\ ~db.feeds[i].is_paywalled}
    /\ IsSortedByName(db, s)

\* C8: mark_feed_as_paywalled(f) changes the row of f, and only it, by
\* setting paywalled = true and active = false together (never one without
\* the other), and f is then absent from every result of get_active_feeds.
C8_MarkPaywalledAtomic ==
  [][op'.name = "mark_feed_as_paywalled" =>
       /\ (ret'.ok /\ op'.feed \in FeedIds(db)) =>
            /\ db'.feeds[op'.feed].is_paywalled
            /\ ~db'.feeds[op'.feed].is_active
            /\ \A s \in get_active_feeds(db') : op'.feed \notin Range(s)
       /\ FeedIds(db') = FeedIds(db)
       /\ \A i \in FeedIds(db) :
            \/ db'.feeds[i] = db.feeds[i]
            \/ /\ i = op'.feed
               /\ db'.feeds[i] =
                    [db.feeds[i] EXCEPT !.is_paywalled = TRUE, !.is_active = FALSE]]_vars

C8_Witness ==
  /\ op.name = "mark_feed_as_paywalled" /\ ret.ok /\ op.fresh
  /\ \E i \in FeedIds(db) : i # op.feed /\ db.feeds[i].is_active

\* C9: after remove_feed(f) returned true the store holds neither the feed
\* row f nor any articles, processed_entries or paywall_hits row of f, the
\* rows of the other feeds are as before, and a call that returned false
\* changed nothing (the four deletions are committed together or not at all).
C9_RemoveFeedCascade ==
  [][op'.name = "remove_feed" =>
       /\ ret'.ok =>
            /\ op'.feed \notin FeedIds(db')
            /\ \A a \in db'.articles : a.feed_id # op'.feed
            /\ \A r \in db'.processed_entries : r.feed_id # op'.feed
            /\ \A h \in db'.paywall_hits : h.feed_id # op'.feed
            /\ FeedIds(db') = FeedIds(db) \ {op'.feed}
            /\ \A i \in FeedIds(db') : db'.feeds[i] = db.feeds[i]
            /\ db'.articles = RowsOfOthers(db.articles, op'.feed)
            /\ db'.processed_entries = RowsOfOthers(db.processed_entries, op'.feed)
            /\ db'.paywall_hits = RowsOfOthers(db.paywall_hits, op'.feed)
       /\ ~ret'.ok => db' = db]_vars

C9_Witness ==
  /\ op.name = "remove_feed" /\ ret.ok /\ op.fresh
  /\ \E i \in FeedIds(db) :
       \/ \E r \in db.processed_entries : r.feed_id = i
       \/ \E h \in db.paywall_hits : h.feed_id = i

----------------------------------------------------------------------------
(* The paywall heuristic (RSSMonitor._detect_paywall).                     *)
(* A content string is the sequence of its lines (content.split('\n'));    *)
(* a line is its leading whitespace, its stripped text and its trailing    *)
(* whitespace, given by their lengths, and whether the text holds one of   *)
(* the hard-block phrases.  A blank line has body = 0 and trail = 0.       *)

PaywallMinLength == 100
SubstantialLength == 50
MinSubstantial == 3
MinIndicatorLength == 15   \* len("for subscribers"), the shortest phrase

MaxLines == 3

LineLen(l) == l.lead + l.body + l.trail

RECURSIVE SumLineLen(_, _, _)
SumLineLen(c, i, j) == IF i > j THEN 0 ELSE LineLen(c[i]) + SumLineLen(c, i + 1, j)

\* len(content)
ContentLen(c) == SumLineLen(c, 1, Len(c)) + (Len(c) - 1)

\* len(content.strip())
StrippedLen(c) ==
  LET text == {i \in DOMAIN c : c[i].body > 0}
  IN  IF text = {} THEN 0
      ELSE LET first == CHOOSE i \in text : \A j \in text : i <= j
               last == CHOOSE i \in text : \A j \in text : j <= i
           IN  SumLineLen(c, first, last) + (last - first)
                 - c[first].lead - c[last].trail

\* _detect_paywall without the paragraph-count gate (the earlier heuristic)
detect_paywall_phrase_only(content, url) ==
  IF ContentLen(content) = 0 \/ StrippedLen(content) < PaywallMinLength THEN TRUE
  ELSE \E i \in DOMAIN content : content[i].phrase

\* _detect_paywall without the minimum-length test on the stripped content
detect_paywall_empty_only(content, url) ==
  IF ContentLen(content) = 0 THEN TRUE
  ELSE IF \E i \in DOMAIN content : content[i].phrase
  THEN Cardinality({i \in DOMAIN content : content[i].body > SubstantialLength})
         < MinSubstantial
  ELSE FALSE

detect_paywall(content, url) ==
  IF ContentLen(content) = 0 \/ StrippedLen(content) < PaywallMinLength THEN TRUE
  ELSE IF \E i \in DOMAIN content : content[i].phrase
  THEN Cardinality({i \in DOMAIN content : content[i].body > SubstantialLength})
         < MinSubstantial
  ELSE FALSE

Bodies == {0, 50, 51, 99, 100}

ContentLines ==
  { l \in [lead : {0, 1}, body : Bodies, trail : {0, 1}, phrase : BOOLEAN] :
      /\ l.body = 0 => (l.trail = 0 /\ ~l.phrase)
      /\ l.phrase => l.body >= MinIndicatorLength }

Contents == UNION { [1..n -> ContentLines] : n \in 1..MaxLines }

PaywallInit ==
  /\ LoopIdle /\ FetchIdle /\ ExtractIdle
  /\ content_in \in Contents
  /\ pw_out = "pending"
  /\ db = EmptyDb
  /\ now = 0
  /\ op = Op("init", NoId, NULL, << >>, FALSE, FALSE)
  /\ ret = Ret(TRUE, NoId)
  /\ CallsIdle

DetectPaywall ==
  /\ pw_out = "pending"
  /\ pw_out' = IF detect_paywall(content_in, "l1") THEN "True" ELSE "False"
  /\ UNCHANGED <<call_vars, content_in, store_vars, fetch_vars, extract_vars, loop_vars>>

\* the heuristic applied to one content string
SpecPaywall == PaywallInit /\ [][DetectPaywall]_vars

\* C10: every content string shorter than 100 characters, the empty string
\* included, is reported as paywalled.
C10_ShortContentIsPaywalled ==
  (pw_out # "pending" /\ ContentLen(content_in) < PaywallMinLength) => pw_out = "True"

C10_Witness ==
  /\ pw_out = "True"
  /\ ContentLen(content_in) < PaywallMinLength
  /\ ContentLen(content_in) > 0
  /\ \A i \in DOMAIN content_in : ~content_in[i].phrase

\* the content holds a hard-block phrase and fewer than 3 substantial lines
PhraseAndThin(c) ==
  /\ \E i \in DOMAIN c : c[i].phrase
  /\ Cardinality({i \in DOMAIN c : c[i].body > SubstantialLength}) < MinSubstantial

\* C11 as stated: for every content of at least 100 characters the answer
\* is true exactly when the content holds a hard-block phrase and has fewer
\* than 3 substantial paragraphs.
C11_LongContentIffPhraseAndThin ==
  (pw_out # "pending" /\ ContentLen(content_in) >= PaywallMinLength) =>
     (pw_out = "True" <=> PhraseAndThin(content_in))

\* C11 amended: for every content whose length without the leading and
\* trailing whitespace is at least 100 characters the answer is true exactly
\* when the content holds a hard-block phrase and has fewer than 3
\* substantial paragraphs.
C11_TrimmedLongContentIffPhraseAndThin ==
  (pw_out # "pending" /\ StrippedLen(content_in) >= PaywallMinLength) =>
     (pw_out = "True" <=> PhraseAndThin(content_in))

\* a phrase with three substantial paragraphs was answered with false
C11_Witness ==
  /\ pw_out = "False"
  /\ StrippedLen(content_in) >= PaywallMinLength
  /\ \E i \in DOMAIN content_in : content_in[i].phrase
  /\ Cardinality({i \in DOMAIN content_in : content_in[i].body > SubstantialLength})
       = MinSubstantial

----------------------------------------------------------------------------
(* The ingestion loop of main().                                           *)
(* The fixture is what the network serves: for every feed url the entries  *)
(* of the feed (empty when the feed cannot be fetched or parsed) and for   *)
(* every article link the page: whether the fetch succeeds, the raw HTML   *)
(* as a content string, and the paragraphs the extraction keeps.           *)

PaywallHitThreshold == 5
PaywallWindowDays == 7
max_entries == 10
MaxParagraphs == 5

MaxPasses == 2

Take(s, n) == SubSeq(s, 1, IF Len(s) < n THEN Len(s) ELSE n)

\* entries.sort(key=published_date, reverse=True): stable, newest first
RECURSIVE InsertByDate(_, _)
InsertByDate(sorted, e) ==
  IF sorted = << >> THEN <<e>>
  ELSE IF sorted[1].published_date >= e.published_date
  THEN <<sorted[1]>> \o InsertByDate(Tail(sorted), e)
  ELSE <<e>> \o sorted

RECURSIVE SortByDate(_)
SortByDate(s) ==
  IF s = << >> THEN << >>
  ELSE InsertByDate(SortByDate(SubSeq(s, 1, Len(s) - 1)), s[Len(s)])

\* get_entries without the sort
get_entries_feed_order(raw) == Take(raw, max_entries)

\* RSSMonitor.get_entries(feed_url) on the entries the feed serves
get_entries(raw) == SortByDate(Take(raw, max_entries))

\* entry.get('id', entry.get('link', '')): get_entries builds no 'id' key
entry_id(entry) == entry.link

BlankLine == [lead |-> 0, body |-> 0, trail |-> 0, phrase |-> FALSE]

ParagraphLine(p) == [lead |-> 0, body |-> p.body, trail |-> 0, phrase |-> p.phrase]

\* '\n\n'.join(paragraphs)
RECURSIVE join_paragraphs(_)
join_paragraphs(ps) ==
  IF ps = << >> THEN <<BlankLine>>
  ELSE IF Len(ps) = 1 THEN <<ParagraphLine(ps[1])>>
  ELSE <<ParagraphLine(ps[1]), BlankLine>> \o join_paragraphs(Tail(ps))

\* _handle_paywall that asks the operator without recording the hit
handle_paywall_no_record(d, feed_id, feed_url, article_url, t, locked, choice) ==
  IF locked THEN [db |-> d, raised |-> TRUE, asked |-> FALSE, recent |-> 0]
  ELSE
    LET recent_hits == get_recent_paywall_hits(d, feed_id, PaywallWindowDays, t)
    IN  IF recent_hits >= PaywallHitThreshold
        THEN [db |-> CASE choice = "2" -> mark_feed_as_paywalled(d, feed_id, FALSE).db
                       [] choice = "3" -> remove_feed(d, feed_id, FALSE).db
                       [] OTHER -> d,
              raised |-> FALSE, asked |-> TRUE, recent |-> recent_hits]
        ELSE [db |-> d, raised |-> FALSE, asked |-> FALSE, recent |-> recent_hits]

\* _handle_paywall that asks the operator one hit early
handle_paywall_asks_early(d, feed_id, feed_url, article_url, t, locked, choice) ==
  LET r == record_paywall_hit(d, feed_id, article_url, t, locked)
  IN  IF r.raised THEN [db |-> d, raised |-> TRUE, asked |-> FALSE, recent |-> 0]
      ELSE
        LET recent_hits == get_recent_paywall_hits(r.db, feed_id, PaywallWindowDays, t)
        IN  IF recent_hits >= PaywallHitThreshold - 1
            THEN [db |-> CASE choice = "2" -> mark_feed_as_paywalled(r.db, feed_id, FALSE).db
                           [] choice = "3" -> remove_feed(r.db, feed_id, FALSE).db
                           [] OTHER -> r.db,
                  raised |-> FALSE, asked |-> TRUE, recent |-> recent_hits]
            ELSE [db |-> r.db, raised |-> FALSE, asked |-> FALSE, recent |-> recent_hits]

\* RSSMonitor._handle_paywall; choice is the operator's answer, used only
\* when the prompt is shown (an answer whose store call fails leaves the
\* store as answer "1" does); asked tells whether the prompt was shown and
\* recent is the count the function read
handle_paywall(d, feed_id, feed_url, article_url, t, locked, choice) ==
  LET r == record_paywall_hit(d, feed_id, article_url, t, locked)
  IN  IF r.raised THEN [db |-> d, raised |-> TRUE, asked |-> FALSE, recent |-> 0]
      ELSE
        LET recent_hits == get_recent_paywall_hits(r.db, feed_id, PaywallWindowDays, t)
        IN  IF recent_hits >= PaywallHitThreshold
            THEN [db |-> CASE choice = "2" -> mark_feed_as_paywalled(r.db, feed_id, FALSE).db
                           [] choice = "3" -> remove_feed(r.db, feed_id, FALSE).db
                           [] OTHER -> r.db,
                  raised |-> FALSE, asked |-> TRUE, recent |-> recent_hits]
            ELSE [db |-> r.db, raised |-> FALSE, asked |-> FALSE, recent |-> recent_hits]

NoArticle == [ok |-> FALSE, content |-> <<BlankLine>>]

\* RSSMonitor._extract_article_content(url, feed_id, feed_url)
extract_article_content(d, page, url, feed_id, feed_url, t, locked, choice) ==
  IF ~page.fetch THEN [db |-> d, data |-> NoArticle, paywalled |-> FALSE, raised |-> FALSE]
  ELSE IF feed_id # NoId /\ feed_url # << >> /\ detect_paywall(page.raw, url)
  THEN LET h == handle_paywall(d, feed_id, feed_url, url, t, locked, choice)
       IN  [db |-> h.db, data |-> NoArticle, paywalled |-> TRUE, raised |-> h.raised]
  ELSE [db |-> d,
        data |-> [ok |-> TRUE,
                  content |-> join_paragraphs(Take(page.paragraphs, MaxParagraphs))],
        paywalled |-> FALSE, raised |-> FALSE]

\* WordPressPoster.create_post: posted tells whether a remote post was made
create_post(cache, url, accepted) ==
  IF url \in cache THEN [cache |-> cache, posted |-> FALSE, ok |-> TRUE]
  ELSE IF accepted THEN [cache |-> cache \cup {url}, posted |-> TRUE, ok |-> TRUE]
  ELSE [cache |-> cache, posted |-> FALSE, ok |-> FALSE]

(* the fixtures *)
Entry(link, date) == [link |-> link, published_date |-> date]

RawFeeds ==
  { << >>, <<Entry("l1", 1)>>, <<Entry("l1", 0), Entry("l2", 1)>>,
    <<Entry("l2", 1), Entry("l1", 1)>> }

LongLine == [lead |-> 0, body |-> 100, trail |-> 0, phrase |-> FALSE]

Page(fetch, raw, paragraphs) == [fetch |-> fetch, raw |-> raw, paragraphs |-> paragraphs]

ShortLine == [lead |-> 0, body |-> 50, trail |-> 0, phrase |-> FALSE]

PageUnreachable == Page(FALSE, <<BlankLine>>, << >>)
PageTiny == Page(TRUE, <<ShortLine>>, << >>)
PageNoParagraphs == Page(TRUE, <<LongLine>>, << >>)
PageShort == Page(TRUE, <<LongLine>>, <<[body |-> 51, phrase |-> FALSE]>>)
PageOk ==
  Page(TRUE, <<LongLine, LongLine>>,
       <<[body |-> 100, phrase |-> FALSE], [body |-> 51, phrase |-> FALSE]>>)

Pages == {PageUnreachable, PageTiny, PageNoParagraphs, PageShort, PageOk}

FeedUrls == { <<"http://", "a">>, <<"http://", "e-acute">> }

\* the first feed serves any of the raw feeds, the second none or the first
\* link again; the first link leads to any page, the second to a page that
\* is either clean or too short
Fixtures ==
  { x \in [feed_of : [FeedUrls -> RawFeeds], page_of : [Links -> Pages]] :
      /\ Len(x.feed_of[<<"http://", "e-acute">>]) <= 1
      /\ \A i \in DOMAIN x.feed_of[<<"http://", "e-acute">>] :
           x.feed_of[<<"http://", "e-acute">>][i].link = "l1"
      /\ x.page_of["l2"] \in {PageTiny, PageOk} }

RECURSIVE WithHits(_, _, _)
WithHits(d, f, n) ==
  IF n = 0 THEN d ELSE WithHits(record_paywall_hit(d, f, "l0", 0, FALSE).db, f, n - 1)

\* main() enters its loop on a store that holds two feeds; the first feed
\* is one paywall hit short of the threshold, the second has none
LoopInit ==
  /\ db = WithHits(add_feed(add_feed(EmptyDb, <<"http://", "a">>, <<"A">>, FALSE).db,
                            <<"http://", "e-acute">>, << >>, FALSE).db,
                   1, PaywallHitThreshold - 1)
  /\ now = 0
  /\ op = Op("init", NoId, NULL, << >>, FALSE, FALSE)
  /\ ret = Ret(TRUE, NoId)
  /\ CallsIdle
  /\ content_in = << >>
  /\ pw_out = "pending"
  /\ fixture \in Fixtures
  /\ pc = "select" /\ pass = 1 /\ active_feeds = << >> /\ fi = 0
  /\ entries = << >> /\ ei = 0 /\ entry_content = << >>
  /\ wp_cache = {} /\ work = {} /\ marked_before = {}
  /\ finished = NoneFinished
  /\ run = [fault |-> FALSE, feeds_changed |-> FALSE, restarted |-> FALSE]
  /\ FetchIdle /\ ExtractIdle

FeedsChanged(d1, d2) ==
  \/ FeedIds(d1) # FeedIds(d2)
  \/ \E i \in FeedIds(d1) :
       \/ d1.feeds[i].is_active # d2.feeds[i].is_active
       \/ d1.feeds[i].is_paywalled # d2.feeds[i].is_paywalled

Note(d2, fault) ==
  [run EXCEPT !.fault = @ \/ fault, !.feeds_changed = @ \/ FeedsChanged(db, d2)]

\* a paywall_hits row for this feed and link was appended (it may be gone
\* again if the operator had the feed removed)
HitRecorded(d2, feed_id, link) ==
  /\ d2.hit_seq = db.hit_seq + 1
  /\ \/ \E h \in d2.paywall_hits :
          h.id = d2.hit_seq /\ h.feed_id = feed_id /\ h.url = link
     \/ feed_id \notin FeedIds(d2)

\* a skip that abandons the rest of the feed
AfterEntry_leaves_feed ==
  IF fi < Len(active_feeds) THEN
    /\ fi' = fi + 1 /\ pc' = "feed" /\ entries' = << >> /\ ei' = 0
  ELSE
    /\ pc' = "sleep" /\ entries' = << >> /\ ei' = 0 /\ fi' = fi

\* continue: the next entry, else the next feed, else the end of the pass
AfterEntry ==
  IF ei < Len(entries) THEN
    /\ ei' = ei + 1 /\ pc' = "entry"
    /\ UNCHANGED <<fi, entries>>
  ELSE IF fi < Len(active_feeds) THEN
    /\ fi' = fi + 1 /\ pc' = "feed" /\ entries' = << >> /\ ei' = 0
  ELSE
    /\ pc' = "sleep" /\ entries' = << >> /\ ei' = 0 /\ fi' = fi

\* feeds = db.get_active_feeds()
StartPass ==
  /\ pc = "select"
  /\ \E s \in get_active_feeds(db) :
       /\ active_feeds' =
            [i \in DOMAIN s |-> [id |-> s[i], url |-> db.feeds[s[i]].url,
                                 name |-> db.feeds[s[i]].name]]
       /\ IF s = << >> THEN pc' = "sleep" /\ fi' = 0 ELSE pc' = "feed" /\ fi' = 1
  /\ entries' = << >> /\ ei' = 0
  /\ UNCHANGED <<call_vars, store_vars, paywall_vars, fetch_vars, extract_vars, pass, entry_content, fixture, wp_cache, work,
                 marked_before, finished, run>>

\* entries = rss_monitor.get_entries(feed['url'])
GetEntries ==
  /\ pc = "feed"
  /\ LET es == get_entries(fixture.feed_of[active_feeds[fi].url])
     IN  IF es = << >>
         THEN IF fi < Len(active_feeds)
              THEN fi' = fi + 1 /\ pc' = "feed" /\ UNCHANGED <<entries, ei>>
              ELSE pc' = "sleep" /\ UNCHANGED <<fi, entries, ei>>
         ELSE entries' = es /\ ei' = 1 /\ pc' = "entry" /\ fi' = fi
  /\ UNCHANGED <<call_vars, store_vars, paywall_vars, fetch_vars, extract_vars, pass, active_feeds, entry_content, fixture,
                 wp_cache, work, marked_before, finished, run>>

\* if db.is_entry_processed(entry_id): continue
DedupCheck ==
  /\ pc = "entry"
  /\ LET id == entry_id(entries[ei])
     IN  IF is_entry_processed(db, id)
         THEN /\ finished' = Finished(id, "duplicate", FALSE, FALSE, FALSE)
              /\ work' = work \cup {<<"skip", id>>}
              /\ AfterEntry
         ELSE /\ pc' = "extract"
              /\ UNCHANGED <<fi, entries, ei, work, finished>>
  /\ UNCHANGED <<call_vars, store_vars, paywall_vars, fetch_vars, extract_vars, pass, active_feeds, entry_content, fixture,
                 wp_cache, marked_before, run>>

\* article_data = rss_monitor._extract_article_content(link, feed id, feed url)
Extract ==
  /\ pc = "extract"
  /\ \E locked \in BOOLEAN, choice \in {"1", "2", "3"} :
       LET link == entries[ei].link
           feed == active_feeds[fi]
           r == extract_article_content(db, fixture.page_of[link], link, feed.id,
                                        feed.url, now, locked, choice)
           hit == HitRecorded(r.db, feed.id, link)
       IN  /\ db' = r.db
           /\ run' = Note(r.db, r.raised)
           /\ work' = work \cup {<<"fetch", link>>}
                           \cup (IF hit THEN {<<"hit", link>>} ELSE {})
           /\ IF r.data.ok
              THEN /\ entry_content' = r.data.content
                   /\ pc' = "paywall"
                   /\ UNCHANGED <<fi, entries, ei, finished>>
              ELSE /\ finished' = Finished(link,
                                           IF r.paywalled THEN "paywalled" ELSE "no_content",
                                           r.raised, hit, FALSE)
                   /\ entry_content' = entry_content
                   /\ AfterEntry
  /\ UNCHANGED <<call_vars, now, op, ret, paywall_vars, fetch_vars, extract_vars, pass, active_feeds, fixture, wp_cache,
                 marked_before>>

\* if rss_monitor._detect_paywall(content, link): _handle_paywall(...); continue
PaywallCheck ==
  /\ pc = "paywall"
  /\ LET link == entries[ei].link
         feed == active_feeds[fi]
     IN  IF detect_paywall(entry_content, link)
         THEN \E locked \in BOOLEAN, choice \in {"1", "2", "3"} :
                LET h == handle_paywall(db, feed.id, feed.url, link, now, locked, choice)
                    hit == HitRecorded(h.db, feed.id, link)
                IN  /\ db' = h.db
                    /\ run' = Note(h.db, h.raised)
                    /\ work' = work \cup (IF hit THEN {<<"hit", link>>} ELSE {})
                    /\ finished' = Finished(link, "paywalled", h.raised, hit, FALSE)
                    /\ AfterEntry
         ELSE /\ pc' = "rewrite"
              /\ UNCHANGED <<db, run, work, finished, fi, entries, ei>>
  /\ UNCHANGED <<call_vars, now, op, ret, paywall_vars, fetch_vars, extract_vars, pass, active_feeds, entry_content, fixture,
                 wp_cache, marked_before>>

\* a rewrite step whose failure leaves the entry without content
Rewrite_failure_blanks ==
  /\ pc = "rewrite"
  /\ \E outcome \in {"ok", "none", "raise"} :
       /\ entry_content' = <<BlankLine>>
       /\ work' = work \cup (IF outcome = "ok" THEN {<<"rewrite", entries[ei].link>>} ELSE {})
  /\ pc' = "save"
  /\ UNCHANGED <<call_vars, store_vars, paywall_vars, fetch_vars, extract_vars, pass, active_feeds, fi, entries, ei, fixture,
                 wp_cache, marked_before, finished, run>>

\* the rewrite and the tags: a rewritten article has a title and paragraphs
\* but no 'content' key, so rewritten_content.get('content', '') is '';
\* a rewriter that returns None or raises leaves content as it was
Rewrite ==
  /\ pc = "rewrite"
  /\ \E outcome \in {"ok", "none", "raise"} :
       /\ entry_content' = IF outcome = "ok" THEN <<BlankLine>> ELSE entry_content
       /\ work' = work \cup (IF outcome = "ok" THEN {<<"rewrite", entries[ei].link>>} ELSE {})
  /\ pc' = "save"
  /\ UNCHANGED <<call_vars, store_vars, paywall_vars, fetch_vars, extract_vars, pass, active_feeds, fi, entries, ei, fixture,
                 wp_cache, marked_before, finished, run>>

\* if not db.save_article(article_data): continue
Save ==
  /\ pc = "save"
  /\ \E locked \in BOOLEAN :
       LET link == entries[ei].link
           r == save_article(db, link, ContentLen(entry_content), active_feeds[fi].id, locked)
       IN  /\ db' = r.db
           /\ run' = Note(r.db, locked)
           /\ IF r.ret.ok
              THEN /\ work' = work \cup {<<"save", link>>}
                   /\ pc' = "publish"
                   /\ UNCHANGED <<fi, entries, ei, finished>>
              ELSE /\ finished' = Finished(link, "save_failed", TRUE, FALSE, FALSE)
                   /\ work' = work
                   /\ AfterEntry
  /\ UNCHANGED <<call_vars, now, op, ret, paywall_vars, fetch_vars, extract_vars, pass, active_feeds, entry_content, fixture,
                 wp_cache, marked_before>>

\* if publish_to_wordpress and wordpress: wordpress.create_post(...); the
\* pass history keeps whether the latest attempt for the link failed
Publish ==
  /\ pc = "publish"
  /\ \E outcome \in {"off", "accepted", "refused"} :
       LET link == entries[ei].link
           r == create_post(wp_cache, link, outcome = "accepted")
       IN  IF outcome = "off"
           THEN /\ wp_cache' = wp_cache
                /\ work' = work \ {<<"publish_failed", link>>}
           ELSE /\ wp_cache' = r.cache
                /\ work' = (work \ {<<"publish_failed", link>>})
                             \cup (IF r.posted THEN {<<"publish", link>>} ELSE {})
                             \cup (IF r.ok THEN {} ELSE {<<"publish_failed", link>>})
  /\ pc' = "mark"
  /\ UNCHANGED <<call_vars, store_vars, paywall_vars, fetch_vars, extract_vars, pass, active_feeds, fi, entries, ei, entry_content,
                 fixture, marked_before, finished, run>>

\* db.mark_entry_processed(feed id, entry_id, title, link, published)
Mark ==
  /\ pc = "mark"
  /\ \E locked \in BOOLEAN :
       LET id == entry_id(entries[ei])
           r == mark_entry_processed(db, active_feeds[fi].id, id, "t", entries[ei].link,
                                     NULL, now, locked)
           inserted == is_entry_processed(r.db, id) /\ ~is_entry_processed(db, id)
       IN  /\ db' = r.db
           /\ run' = Note(r.db, locked)
           /\ work' = work \cup (IF inserted THEN {<<"insert", id>>} ELSE {})
           /\ finished' = Finished(id, "marked", locked, FALSE, inserted)
           /\ AfterEntry
  /\ UNCHANGED <<call_vars, now, op, ret, paywall_vars, fetch_vars, extract_vars, pass, active_feeds, entry_content, fixture,
                 wp_cache, marked_before>>

ProcessedIds(d) == {r.entry_id : r \in d.processed_entries}

\* time.sleep(check_interval), then the next pass of while True
Sleep ==
  /\ pc = "sleep" /\ pass < MaxPasses
  /\ pass' = pass + 1 /\ pc' = "select"
  /\ marked_before' = ProcessedIds(db)
  /\ work' = {}
  /\ UNCHANGED <<call_vars, store_vars, paywall_vars, fetch_vars, extract_vars, active_feeds, fi, entries, ei, entry_content,
                 fixture, wp_cache, finished, run>>

\* the program is stopped during the sleep and started again: main() builds
\* a new Database on the same file and the poster reloads its cache file
Restart ==
  /\ pc = "sleep" /\ pass < MaxPasses
  /\ db' = init_db(db, now)
  /\ pass' = pass + 1 /\ pc' = "select"
  /\ marked_before' = ProcessedIds(db)
  /\ work' = {}
  /\ finished' = NoneFinished
  /\ run' = [run EXCEPT !.restarted = TRUE]
  /\ active_feeds' = << >> /\ fi' = 0
  /\ UNCHANGED <<call_vars, now, op, ret, paywall_vars, fetch_vars, extract_vars, entries, ei, entry_content, fixture, wp_cache>>

LoopNext ==
  \/ StartPass
  \/ GetEntries
  \/ DedupCheck
  \/ Extract
  \/ PaywallCheck
  \/ Rewrite
  \/ Save
  \/ Publish
  \/ Mark
  \/ Sleep
  \/ Restart

SpecLoop == LoopInit /\ [][LoopNext]_vars

----------------------------------------------------------------------------
(* Properties of the ingestion loop *)

Kinds == {"fetch", "save", "publish", "insert"}

\* C3: when the loop runs twice over unchanged feeds and articles (no store
\* fault, no feed removed or flagged), the second pass inserts no
\* processed_entries row, and no entry marked in the first pass is fetched,
\* saved, published or inserted again.
C3_SecondPassIdempotent ==
  (pass >= 2 /\ ~run.fault /\ ~run.feeds_changed) =>
     /\ \A l \in Links : <<"insert", l>> \notin work
     /\ \A l \in marked_before : \A k \in Kinds : <<k, l>> \notin work

\* the same statement for passes of one process (no second _init_db)
SecondPassIdempotentInProcess ==
  (pass >= 2 /\ ~run.fault /\ ~run.feeds_changed /\ ~run.restarted) =>
     /\ \A l \in Links : <<"insert", l>> \notin work
     /\ \A l \in marked_before : \A k \in Kinds : <<k, l>> \notin work

\* a second pass of one process that skipped a marked entry at the dedup check
SecondPassSkips ==
  /\ pass >= 2 /\ ~run.fault /\ ~run.feeds_changed /\ ~run.restarted
  /\ \E l \in marked_before : <<"skip", l>> \in work

\* C4: an entry whose content is detected as paywalled gets a paywall hit
\* recorded for its feed (unless the store refuses the write) and no
\* processed_entries row: is_entry_processed is false for it when the entry
\* is finished and for the rest of the pass.
C4_PaywalledNotProcessed ==
  /\ finished.result = "paywalled" =>
       /\ ~finished.fault => finished.hit
       /\ ~is_entry_processed(db, finished.link)
  /\ \A l \in Links : <<"hit", l>> \in work => ~is_entry_processed(db, l)

\* a pass has ended in which one entry was marked and another one, detected
\* as paywalled, got its hit and is not processed
C4_Witness ==
  /\ pc = "sleep"
  /\ finished.result = "paywalled" /\ ~finished.fault /\ finished.hit
  /\ <<"hit", finished.link>> \in work
  /\ ~is_entry_processed(db, finished.link)
  /\ \E l \in Links : <<"insert", l>> \in work

\* the page of a link is fetched, is not paywalled as raw HTML, yields at
\* least one paragraph and an extracted content that is not paywalled
PageClean(l) ==
  LET page == fixture.page_of[l]
  IN  /\ page.fetch
      /\ ~detect_paywall(page.raw, l)
      /\ Len(page.paragraphs) >= 1
      /\ ~detect_paywall(join_paragraphs(Take(page.paragraphs, MaxParagraphs)), l)

\* C5: an entry that was unprocessed at the dedup check, whose page is
\* clean and whose store writes succeed, ends its pass with
\* mark_entry_processed inserting a new row, and is_entry_processed is true
\* for it afterwards.
C5_CleanEntryMarked ==
  (/\ finished.result \notin {"none", "duplicate"}
   /\ PageClean(finished.link)
   /\ ~finished.fault) =>
     /\ finished.result = "marked"
     /\ finished.inserted
     /\ is_entry_processed(db, finished.link)

\* a clean entry was marked after the rewriter returned an article
C5_Witness ==
  /\ finished.result = "marked" /\ finished.inserted /\ ~finished.fault
  /\ PageClean(finished.link)
  /\ is_entry_processed(db, finished.link)
  /\ \E a \in db.articles : a.url = finished.link

----------------------------------------------------------------------------
(* RSSMonitor._fetch_url: one call is a loop of at most max_retries        *)
(* attempts.  fetch_call.events is what the call has done so far: the      *)
(* sleeps with their delays and the requests with the User-Agent sent and  *)
(* the response or error received.                                         *)

max_retries == 3
retry_delay == 5
RateLimitFactor == 5

MaxCalls == 2

DesktopUA == "desktop"
MobileUA == "mobile"

Response(status, content_type) ==
  [kind |-> "response", status |-> status, content_type |-> content_type]

\* requests.get raised (timeout, connection error)
RequestError == [kind |-> "exception", status |-> 0, content_type |-> ""]

NoResponse == [kind |-> "none", status |-> 0, content_type |-> ""]

Responses ==
  { Response(200, "text/html"), Response(200, "Text/HTML"),
    Response(200, "application/xhtml+xml"),
    Response(200, "application/json"), Response(403, "text/html"),
    Response(404, "text/html"), Response(429, "text/html"),
    Response(500, "text/html"), RequestError }

SleepEv(delay) == [kind |-> "sleep", delay |-> delay, ua |-> "", resp |-> NoResponse]

RequestEv(ua, r) == [kind |-> "request", delay |-> 0, ua |-> ua, resp |-> r]

\* response.headers.get('content-type', '').lower()
content_type_lower(content_type) ==
  IF content_type = "Text/HTML" THEN "text/html" ELSE content_type

\* 'text/html' in content_type or 'application/xhtml+xml' in content_type
IsHtml(content_type) == content_type \in {"text/html", "application/xhtml+xml"}

FetchInit ==
  /\ LoopIdle /\ FetchIdle /\ ExtractIdle
  /\ db = EmptyDb
  /\ now = 0
  /\ op = Op("init", NoId, NULL, << >>, FALSE, FALSE)
  /\ ret = Ret(TRUE, NoId)
  /\ CallsIdle
  /\ content_in = << >>
  /\ pw_out = "pending"

\* _fetch_url(url, is_feed) is called: the headers are built anew
FetchCall ==
  /\ fetch_call.pc \in {"idle", "done"}
  /\ fetch_call.calls < MaxCalls
  /\ \E is_feed \in BOOLEAN :
       fetch_call' = [pc |-> "loop", is_feed |-> is_feed, attempt |-> 0,
                      ua |-> DesktopUA, events |-> << >>, result |-> "pending",
                      calls |-> fetch_call.calls + 1,
                      ua_before |-> IF fetch_call.calls = 0 THEN "" ELSE fetch_call.ua]
  /\ UNCHANGED <<call_vars, store_vars, paywall_vars, extract_vars, loop_vars>>

\* the delay computed from the 0-based attempt index
LoopDelay_zero_based(f) ==
  IF f.attempt > 0 THEN <<SleepEv(retry_delay * f.attempt)>> ELSE << >>

\* time.sleep(delay) at the head of the loop body
LoopDelay(f) ==
  IF f.attempt > 0 THEN <<SleepEv(retry_delay * (f.attempt + 1))>> ELSE << >>

\* continue: the next pass of the for loop
Continue(f, ev) == [f EXCEPT !.events = ev, !.attempt = f.attempt + 1]

Return(f, ev, result) == [f EXCEPT !.events = ev, !.pc = "done", !.result = result]

\* if attempt < self.max_retries - 1: continue; return None
RetryOrNone(f, ev) ==
  IF f.attempt < max_retries - 1 THEN Continue(f, ev) ELSE Return(f, ev, "None")

IsStatus(r, status) == r.kind = "response" /\ r.status = status

\* raise_for_status raises for the 4xx and 5xx the loop has not handled
RaisesForStatus(r) == r.kind = "response" /\ r.status >= 400

\* the loop body whose handlers re-raise on the last attempt
fetch_attempt_reraises(f, r) ==
  LET ev == f.events \o LoopDelay(f) \o <<RequestEv(f.ua, r)>>
      retry_or_raise ==
        IF f.attempt < max_retries - 1 THEN Continue(f, ev) ELSE Return(f, ev, "raised")
  IN  CASE r.kind = "exception" -> retry_or_raise
        [] IsStatus(r, 403) -> [Continue(f, ev) EXCEPT !.ua = MobileUA]
        [] IsStatus(r, 429) ->
             Continue(f, ev \o <<SleepEv(retry_delay * RateLimitFactor)>>)
        [] IsStatus(r, 404) -> Return(f, ev, "None")
        [] ~IsStatus(r, 403) /\ ~IsStatus(r, 429) /\ ~IsStatus(r, 404)
             /\ RaisesForStatus(r) ->
             retry_or_raise
        [] r.kind = "response" /\ ~RaisesForStatus(r)
             /\ ~f.is_feed /\ ~IsHtml(content_type_lower(r.content_type)) ->
             RetryOrNone(f, ev)
        [] OTHER -> Return(f, ev, "content")

\* the loop body with 429 left to raise_for_status: no longer wait
fetch_attempt_429_raises(f, r) ==
  LET ev == f.events \o LoopDelay(f) \o <<RequestEv(f.ua, r)>>
  IN  CASE r.kind = "exception" -> RetryOrNone(f, ev)
        [] IsStatus(r, 403) -> [Continue(f, ev) EXCEPT !.ua = MobileUA]
        [] IsStatus(r, 404) -> Return(f, ev, "None")
        [] ~IsStatus(r, 403) /\ ~IsStatus(r, 404) /\ RaisesForStatus(r) ->
             RetryOrNone(f, ev)
        [] r.kind = "response" /\ ~RaisesForStatus(r)
             /\ ~f.is_feed /\ ~IsHtml(content_type_lower(r.content_type)) ->
             RetryOrNone(f, ev)
        [] OTHER -> Return(f, ev, "content")

\* the loop body that keeps the User-Agent after a 403
fetch_attempt_same_agent(f, r) ==
  LET ev == f.events \o LoopDelay(f) \o <<RequestEv(f.ua, r)>>
  IN  CASE r.kind = "exception" -> RetryOrNone(f, ev)
        [] IsStatus(r, 403) -> Continue(f, ev)
        [] IsStatus(r, 429) ->
             Continue(f, ev \o <<SleepEv(retry_delay * RateLimitFactor)>>)
        [] IsStatus(r, 404) -> Return(f, ev, "None")
        [] ~IsStatus(r, 403) /\ ~IsStatus(r, 429) /\ ~IsStatus(r, 404)
             /\ RaisesForStatus(r) ->
             RetryOrNone(f, ev)
        [] r.kind = "response" /\ ~RaisesForStatus(r)
             /\ ~f.is_feed /\ ~IsHtml(content_type_lower(r.content_type)) ->
             RetryOrNone(f, ev)
        [] OTHER -> Return(f, ev, "content")

\* the loop body without the Content-Type check
fetch_attempt_any_type(f, r) ==
  LET ev == f.events \o LoopDelay(f) \o <<RequestEv(f.ua, r)>>
  IN  CASE r.kind = "exception" -> RetryOrNone(f, ev)
        [] IsStatus(r, 403) -> [Continue(f, ev) EXCEPT !.ua = MobileUA]
        [] IsStatus(r, 429) ->
             Continue(f, ev \o <<SleepEv(retry_delay * RateLimitFactor)>>)
        [] IsStatus(r, 404) -> Return(f, ev, "None")
        [] ~IsStatus(r, 403) /\ ~IsStatus(r, 429) /\ ~IsStatus(r, 404)
             /\ RaisesForStatus(r) ->
             RetryOrNone(f, ev)
        [] OTHER -> Return(f, ev, "content")

\* the loop body with 404 left to raise_for_status, as any other error status
fetch_attempt_404_raises(f, r) ==
  LET ev == f.events \o LoopDelay(f) \o <<RequestEv(f.ua, r)>>
  IN  CASE r.kind = "exception" -> RetryOrNone(f, ev)
        [] IsStatus(r, 403) -> [Continue(f, ev) EXCEPT !.ua = MobileUA]
        [] IsStatus(r, 429) ->
             Continue(f, ev \o <<SleepEv(retry_delay * RateLimitFactor)>>)
        [] ~IsStatus(r, 403) /\ ~IsStatus(r, 429) /\ RaisesForStatus(r) ->
             RetryOrNone(f, ev)
        [] r.kind = "response" /\ ~RaisesForStatus(r)
             /\ ~f.is_feed /\ ~IsHtml(content_type_lower(r.content_type)) ->
             RetryOrNone(f, ev)
        [] OTHER -> Return(f, ev, "content")

\* the outcome of one pass through the body of the for loop
fetch_attempt(f, r) ==
  LET ev == f.events \o LoopDelay(f) \o <<RequestEv(f.ua, r)>>
  IN  CASE r.kind = "exception" -> RetryOrNone(f, ev)
        [] IsStatus(r, 403) -> [Continue(f, ev) EXCEPT !.ua = MobileUA]
        [] IsStatus(r, 429) ->
             Continue(f, ev \o <<SleepEv(retry_delay * RateLimitFactor)>>)
        [] IsStatus(r, 404) -> Return(f, ev, "None")
        [] ~IsStatus(r, 403) /\ ~IsStatus(r, 429) /\ ~IsStatus(r, 404)
             /\ RaisesForStatus(r) ->
             RetryOrNone(f, ev)
        [] r.kind = "response" /\ ~RaisesForStatus(r)
             /\ ~f.is_feed /\ ~IsHtml(content_type_lower(r.content_type)) ->
             RetryOrNone(f, ev)
        [] OTHER -> Return(f, ev, "content")

\* one attempt: the delay, the request and the handling of its outcome
FetchAttempt ==
  /\ fetch_call.pc = "loop"
  /\ fetch_call.attempt < max_retries
  /\ \E r \in Responses : fetch_call' = fetch_attempt(fetch_call, r)
  /\ UNCHANGED <<call_vars, store_vars, paywall_vars, extract_vars, loop_vars>>

\* the for loop is exhausted: return None
FetchExhausted ==
  /\ fetch_call.pc = "loop"
  /\ fetch_call.attempt >= max_retries
  /\ fetch_call' = [fetch_call EXCEPT !.pc = "done", !.result = "None"]
  /\ UNCHANGED <<call_vars, store_vars, paywall_vars, extract_vars, loop_vars>>

FetchNext == FetchCall \/ FetchAttempt \/ FetchExhausted

SpecFetch == FetchInit /\ [][FetchNext]_vars

\* a call that has started keeps running until it returns
SpecFetchFair == SpecFetch /\ WF_vars(FetchAttempt) /\ WF_vars(FetchExhausted)

----------------------------------------------------------------------------
(* Properties of _fetch_url *)

Events == fetch_call.events

IsRequest(i) == Events[i].kind = "request"

\* the 1-based number of the attempt that issued the request at index i
AttemptNo(i) == Cardinality({j \in 1..i : IsRequest(j)})

GotStatus(i, status) == IsRequest(i) /\ IsStatus(Events[i].resp, status)

RequestAfter(i) == \E j \in DOMAIN Events : j > i /\ IsRequest(j)

\* C12: a 404 ends the call at once with None: no request and no sleep
\* follows it, whatever attempts remain.
C12_NotFoundFailsAtOnce ==
  \A i \in DOMAIN Events :
     GotStatus(i, 404) =>
        /\ i = Len(Events)
        /\ fetch_call.pc = "done"
        /\ fetch_call.result = "None"

\* the first request got 404 and the call is over with two attempts unused
C12_Witness ==
  /\ Len(Events) = 1 /\ GotStatus(1, 404)
  /\ fetch_call.pc = "done" /\ fetch_call.result = "None"
  /\ fetch_call.attempt = 0

RequestCount == Cardinality({i \in DOMAIN Events : IsRequest(i)})

\* the call has returned the body of a response that was not an error
ReturnedABody ==
  /\ Events # << >>
  /\ IsRequest(Len(Events))
  /\ Events[Len(Events)].resp.kind = "response"
  /\ Events[Len(Events)].resp.status < 400

\* C13: whatever the responses and errors, one call issues at most
\* max_retries requests, returns only the content of a response or None
\* (never an exception), and every call that has started returns.
C13_FetchBoundedAndTotal ==
  /\ [](/\ RequestCount <= max_retries
        /\ fetch_call.pc = "done" => fetch_call.result \in {"content", "None"}
        /\ fetch_call.result = "content" => ReturnedABody)
  /\ (fetch_call.pc = "loop" ~> fetch_call.pc = "done")

\* a call that met a connection error, a 5xx and a non-HTML page has used up
\* its attempts and returned None
C13_Witness ==
  /\ fetch_call.pc = "done" /\ fetch_call.result = "None"
  /\ RequestCount = max_retries
  /\ \E i \in DOMAIN Events : IsRequest(i) /\ Events[i].resp.kind = "exception"
  /\ \E i \in DOMAIN Events : GotStatus(i, 500)
  /\ GotStatus(Len(Events), 200)

\* C14: nothing is slept before the first request, and the request of
\* attempt n >= 2 comes right after a sleep of retry_delay * n, which is the
\* only sleep since the previous request unless that one was rate limited.
C14_LinearDelay ==
  \A i \in DOMAIN Events :
     IsRequest(i) =>
        /\ AttemptNo(i) = 1 => i = 1
        /\ AttemptNo(i) >= 2 =>
             /\ Events[i - 1] = SleepEv(retry_delay * AttemptNo(i))
             /\ \/ IsRequest(i - 2)
                \/ /\ Events[i - 2] = SleepEv(retry_delay * RateLimitFactor)
                   /\ GotStatus(i - 3, 429)

\* three requests with sleeps of 2 and 3 times retry_delay between them
C14_Witness ==
  /\ Len(Events) = 5
  /\ IsRequest(1) /\ IsRequest(3) /\ IsRequest(5)
  /\ Events[2] = SleepEv(retry_delay * 2)
  /\ Events[4] = SleepEv(retry_delay * 3)

\* C15 as stated: a 429 is followed by a sleep of 5 * retry_delay and then
\* by another request before the call returns.
C15_RateLimitedIsRetried ==
  \A i \in DOMAIN Events :
     GotStatus(i, 429) =>
        /\ i < Len(Events)
        /\ Events[i + 1] = SleepEv(retry_delay * RateLimitFactor)
        /\ fetch_call.pc = "done" => RequestAfter(i)

\* C15 amended: a 429 is followed by a sleep of 5 * retry_delay and then,
\* unless it answered the last of the max_retries attempts, by another
\* request before the call returns; after the last attempt the call sleeps
\* and returns None.
C15_RateLimitedIsRetriedWhileAttemptsRemain ==
  \A i \in DOMAIN Events :
     GotStatus(i, 429) =>
        /\ i < Len(Events)
        /\ Events[i + 1] = SleepEv(retry_delay * RateLimitFactor)
        /\ (fetch_call.pc = "done" /\ AttemptNo(i) < max_retries) => RequestAfter(i)
        /\ (fetch_call.pc = "done" /\ ~RequestAfter(i)) => fetch_call.result = "None"

\* the first request was rate limited; the call slept 5 * retry_delay, then
\* the delay of the second attempt, and asked again
C15_Witness ==
  /\ Len(Events) >= 4
  /\ GotStatus(1, 429)
  /\ Events[2] = SleepEv(retry_delay * RateLimitFactor)
  /\ Events[3] = SleepEv(retry_delay * 2)
  /\ IsRequest(4)

\* C16 as stated: after a 403 the request is retried, every later request
\* of the call carries the mobile User-Agent, and the first request of every
\* call carries the desktop User-Agent.
C16_ForbiddenRotatesAgent ==
  /\ Events # << >> => Events[1].ua = DesktopUA
  /\ \A i \in DOMAIN Events :
       GotStatus(i, 403) =>
          /\ \A j \in DOMAIN Events : (j > i /\ IsRequest(j)) => Events[j].ua = MobileUA
          /\ fetch_call.pc = "done" => RequestAfter(i)

\* C16 amended: after a 403 the request is retried unless it was the last
\* of the max_retries attempts, every later request of the call carries the
\* mobile User-Agent, and the first request of every call carries the
\* desktop User-Agent, whatever happened in earlier calls.
C16_ForbiddenRotatesAgentWhileAttemptsRemain ==
  /\ Events # << >> => Events[1].ua = DesktopUA
  /\ \A i \in DOMAIN Events :
       GotStatus(i, 403) =>
          /\ \A j \in DOMAIN Events : (j > i /\ IsRequest(j)) => Events[j].ua = MobileUA
          /\ (fetch_call.pc = "done" /\ AttemptNo(i) < max_retries) => RequestAfter(i)

\* a call that follows one which ended on the mobile User-Agent starts on
\* the desktop one, gets 403 and asks again with the mobile one
C16_Witness ==
  /\ fetch_call.ua_before = MobileUA
  /\ Len(Events) >= 3
  /\ GotStatus(1, 403) /\ Events[1].ua = DesktopUA
  /\ IsRequest(3) /\ Events[3].ua = MobileUA

\* the request at index i got a body that is not an error and whose
\* Content-Type is neither text/html nor application/xhtml+xml
GotOtherType(i) ==
  /\ IsRequest(i)
  /\ Events[i].resp.kind = "response"
  /\ Events[i].resp.status < 400
  /\ ~IsHtml(content_type_lower(Events[i].resp.content_type))

\* C17: an article fetch never returns a body that is not HTML: such a
\* response is retried while attempts remain and gives None on the last
\* attempt; a feed fetch returns the body whatever its Content-Type.
C17_ArticleFetchNeedsHtml ==
  \A i \in DOMAIN Events :
     GotOtherType(i) =>
        IF fetch_call.is_feed
        THEN i = Len(Events) /\ fetch_call.pc = "done" /\ fetch_call.result = "content"
        ELSE /\ ~(i = Len(Events) /\ fetch_call.result = "content")
             /\ AttemptNo(i) < max_retries =>
                  (fetch_call.pc = "loop" \/ RequestAfter(i))
             /\ AttemptNo(i) = max_retries =>
                  (fetch_call.pc = "done" /\ fetch_call.result = "None")

\* an article fetch got a JSON body three times and returned None
C17_Witness ==
  /\ ~fetch_call.is_feed
  /\ fetch_call.pc = "done" /\ fetch_call.result = "None"
  /\ RequestCount = max_retries
  /\ \A i \in DOMAIN Events : IsRequest(i) => GotOtherType(i)

----------------------------------------------------------------------------
(* Paragraph extraction.  A document is given by the <p> elements of its   *)
(* content container in document order, the <p> elements outside it, and   *)
(* whether an element the removal loop destroys holds another element the  *)
(* loop visits.  A <p> element is given by the length of its stripped      *)
(* text, the number of characters whitespace normalisation removes, the    *)
(* notable fragment its text holds ("" for none) and where it sits: in     *)
(* plain content, in an <aside>, or in a <div class="comments">.           *)

rss_min_paragraph_length == 20

MaxShortDoc == 3
MaxLongDoc == 7

DenyListParagraphs ==
  { "first appeared on", "the post", "all rights reserved", "copyright",
    "follow us", "subscribe", "newsletter", "advertisement", "sponsored",
    "related articles", "share this", "comments", "login", "register" }

DenyListArticle ==
  DenyListParagraphs \cup
  { "follow us everywhere", "bulgarianmilitary.com", "manifesto", "ethical principles" }

\* text.lower()
text_lower(frag) == IF frag = "SUBSCRIBE" THEN "subscribe" ELSE frag

\* ' '.join(text.split())
normalize_whitespace(frag) ==
  IF frag = "first  appeared on" THEN "first appeared on" ELSE frag

Elem(len, gaps, frag, where) ==
  [len |-> len, gaps |-> gaps, frag |-> frag, where |-> where]

CoreElems ==
  { Elem(21, 0, "", "content"), Elem(19, 0, "", "content"),
    Elem(30, 0, "subscribe", "content") }

Elems ==
  CoreElems \cup
  { Elem(20, 0, "", "content"), Elem(0, 0, "", "content"),
    Elem(21, 2, "", "content"), Elem(30, 0, "SUBSCRIBE", "content"),
    Elem(30, 0, "first  appeared on", "content"), Elem(30, 0, "manifesto", "content"),
    Elem(21, 0, "", "aside"), Elem(21, 0, "", "comments") }

Containers ==
  UNION { [1..n -> Elems] : n \in 0..MaxShortDoc }
  \cup UNION { [1..n -> CoreElems] : n \in 0..MaxLongDoc }

Docs ==
  [container : Containers,
   outside : {<< >>, <<Elem(21, 0, "", "content")>>},
   nested : BOOLEAN]

\* the elements with their position in the document
WithIds(s, first) ==
  [i \in DOMAIN s |-> [id |-> first + i - 1, len |-> s[i].len, gaps |-> s[i].gaps,
                       frag |-> s[i].frag, where |-> s[i].where]]

\* the test that keeps every paragraph with some text
LongEnough_any_text(e) == e.len > 0

\* if text and len(text) >= min
LongEnough(e) == e.len > 0 /\ e.len >= rss_min_paragraph_length

Para(id, len, frag) == [id |-> id, len |-> len, frag |-> frag]

\* the collection that keeps the last paragraphs instead of the first
article_paragraphs_keep_last(doc) ==
  LET kept == SelectSeq(WithIds(doc.container, 1), LAMBDA e : e.where # "comments")
      long == SelectSeq(kept, LongEnough)
      cleaned == [i \in DOMAIN long |->
                    Para(long[i].id, long[i].len - long[i].gaps,
                         normalize_whitespace(long[i].frag))]
      passed == SelectSeq(cleaned, LAMBDA q : text_lower(q.frag) \notin DenyListArticle)
  IN  IF Len(passed) <= MaxParagraphs THEN passed
      ELSE SubSeq(passed, Len(passed) - MaxParagraphs + 1, Len(passed))

\* the paragraphs _extract_article_content collects from the container
article_paragraphs(doc) ==
  LET kept == SelectSeq(WithIds(doc.container, 1), LAMBDA e : e.where # "comments")
      long == SelectSeq(kept, LongEnough)
      cleaned == [i \in DOMAIN long |->
                    Para(long[i].id, long[i].len - long[i].gaps,
                         normalize_whitespace(long[i].frag))]
      passed == SelectSeq(cleaned, LAMBDA q : text_lower(q.frag) \notin DenyListArticle)
  IN  Take(passed, MaxParagraphs)

\* RSSMonitor._extract_paragraphs
extract_paragraphs(doc) ==
  LET kept == SelectSeq(WithIds(doc.container, 1), LAMBDA e : e.where # "aside")
      rest == WithIds(doc.outside, Len(doc.container) + 1)
      found == SelectSeq(kept, LongEnough)
      paragraphs == IF found = << >> THEN SelectSeq(kept \o rest, LongEnough) ELSE found
      cleaned == [i \in DOMAIN paragraphs |->
                    Para(paragraphs[i].id, paragraphs[i].len, paragraphs[i].frag)]
  IN  SelectSeq(cleaned, LAMBDA q : text_lower(q.frag) \notin DenyListParagraphs)

Extracted(status, fn, paragraphs) ==
  [status |-> status, fn |-> fn, paragraphs |-> paragraphs]

ExtractInit ==
  /\ LoopIdle /\ FetchIdle
  /\ db = EmptyDb
  /\ now = 0
  /\ op = Op("init", NoId, NULL, << >>, FALSE, FALSE)
  /\ ret = Ret(TRUE, NoId)
  /\ CallsIdle
  /\ content_in = << >>
  /\ pw_out = "pending"
  /\ doc_in \in Docs
  /\ extract_out = Extracted("pending", "", << >>)

\* what using an element after decompose() may do: the library leaves it
\* undefined; an exception is caught by the caller's except clause
Destroyed == IF doc_in.nested THEN {"raises", "goes on"} ELSE {"goes on"}

\* _extract_article_content on a fetched page that passed the paywall check
ExtractArticle ==
  /\ extract_out.status = "pending"
  /\ \E u \in Destroyed :
       extract_out' = IF u = "raises" THEN Extracted("None", "article", << >>)
                      ELSE Extracted("list", "article", article_paragraphs(doc_in))
  /\ UNCHANGED <<call_vars, doc_in, store_vars, paywall_vars, fetch_vars, loop_vars>>

\* _extract_paragraphs(soup)
ExtractParagraphs ==
  /\ extract_out.status = "pending"
  /\ \E u \in Destroyed :
       extract_out' = IF u = "raises" THEN Extracted("raised", "paragraphs", << >>)
                      ELSE Extracted("list", "paragraphs", extract_paragraphs(doc_in))
  /\ UNCHANGED <<call_vars, doc_in, store_vars, paywall_vars, fetch_vars, loop_vars>>

ExtractNext == ExtractArticle \/ ExtractParagraphs

SpecExtract == ExtractInit /\ [][ExtractNext]_vars

----------------------------------------------------------------------------
(* Properties of the extraction *)

Returned == extract_out.paragraphs

\* C18: every returned paragraph is longer than the configured minimum; a
\* paragraph of the minimum length or less is never returned.
C18_ReturnedExceedMinimum ==
  extract_out.status = "list" =>
     \A i \in DOMAIN Returned : Returned[i].len > rss_min_paragraph_length

\* the <p> element a returned paragraph was taken from
SourceOf(q) == (doc_in.container \o doc_in.outside)[q.id]

\* C18 as the code has it: every returned paragraph comes from a <p> whose
\* stripped text, measured before whitespace normalisation, is at least
\* as long as the configured minimum; a shorter one is never returned.
C18_ReturnedReachMinimum ==
  extract_out.status = "list" =>
     \A i \in DOMAIN Returned :
        SourceOf(Returned[i]).len >= rss_min_paragraph_length

\* a paragraph of exactly the minimum length is returned, next to one that
\* is one character short and is not
C18_Witness ==
  /\ extract_out.status = "list"
  /\ \E i \in DOMAIN Returned : Returned[i].len = rss_min_paragraph_length
  /\ \E k \in DOMAIN doc_in.container :
        /\ doc_in.container[k].len = rss_min_paragraph_length - 1
        /\ \A i \in DOMAIN Returned : Returned[i].id # k

DenyList(fn) == IF fn = "article" THEN DenyListArticle ELSE DenyListParagraphs

\* a paragraph of plain content, longer than the minimum, free of every
\* phrase of the deny-lists whatever its case and spacing
Qualifies(e) ==
  /\ e.where = "content"
  /\ e.len > rss_min_paragraph_length
  /\ text_lower(normalize_whitespace(e.frag)) \notin DenyListArticle

\* C19: when the container holds a qualifying paragraph the extraction
\* returns a non-empty list, and no returned paragraph holds a deny-listed
\* phrase in any case.
C19_QualifyingGivesParagraphs ==
  extract_out.status # "pending" =>
     /\ (\E i \in DOMAIN doc_in.container : Qualifies(doc_in.container[i])) =>
           (extract_out.status = "list" /\ Returned # << >>)
     /\ \A i \in DOMAIN Returned :
           text_lower(Returned[i].frag) \notin DenyList(extract_out.fn)

\* the same statement for documents in which the removal loop meets no
\* destroyed element
QualifyingGivesParagraphsUnnested ==
  (extract_out.status # "pending" /\ ~doc_in.nested) =>
     /\ (\E i \in DOMAIN doc_in.container : Qualifies(doc_in.container[i])) =>
           (extract_out.status = "list" /\ Returned # << >>)
     /\ \A i \in DOMAIN Returned :
           text_lower(Returned[i].frag) \notin DenyList(extract_out.fn)

\* the element passes the length filter and the deny-list filter of the
\* article extraction and is not in a removed subtree
PassesFilters(e) ==
  /\ e.where # "comments"
  /\ e.len >= rss_min_paragraph_length
  /\ text_lower(normalize_whitespace(e.frag)) \notin DenyListArticle

PassingIds == {i \in DOMAIN doc_in.container : PassesFilters(doc_in.container[i])}

\* C20: the article extraction returns at most 5 paragraphs: container
\* paragraphs that pass both filters, in document order, none of the
\* passing ones before a returned one left out, and all of them when there
\* are no more than 5.
C20_FirstFiveInOrder ==
  (extract_out.status = "list" /\ extract_out.fn = "article") =>
     /\ Len(Returned) <= MaxParagraphs
     /\ \A i \in DOMAIN Returned : Returned[i].id \in PassingIds
     /\ \A i, j \in DOMAIN Returned : i < j => Returned[i].id < Returned[j].id
     /\ \A i \in DOMAIN Returned : \A k \in PassingIds :
          k < Returned[i].id => \E j \in DOMAIN Returned : Returned[j].id = k
     /\ Len(Returned) < MaxParagraphs => Len(Returned) = Cardinality(PassingIds)
     /\ Cardinality(PassingIds) >= MaxParagraphs => Len(Returned) = MaxParagraphs

\* seven container paragraphs, the second one too short: the first and the
\* third to sixth are returned, and the seventh although it passes is not
C20_Witness ==
  /\ extract_out.status = "list" /\ extract_out.fn = "article"
  /\ Len(doc_in.container) = 7
  /\ PassingIds = {1, 3, 4, 5, 6, 7}
  /\ Len(Returned) = MaxParagraphs
  /\ Returned[1].id = 1 /\ Returned[2].id = 3 /\ Returned[5].id = 6

\* the container, after the removal loop of the function that ran, holds no
\* paragraph that passes the length filter
ContainerYieldsNone ==
  \A i \in DOMAIN doc_in.container :
     LET e == doc_in.container[i]
     IN  ~(LongEnough(e) /\ e.where # (IF extract_out.fn = "article" THEN "comments" ELSE "aside"))

\* C21: when the container yields no paragraph of sufficient length and the
\* document holds a qualifying paragraph outside the container, the
\* extraction that returns a list returns a non-empty one.
C21_FallbackToWholeDocument ==
  ( /\ extract_out.status = "list"
    /\ ContainerYieldsNone
    /\ \E i \in DOMAIN doc_in.outside : Qualifies(doc_in.outside[i]) )
  => Returned # << >>

\* the same statement of _extract_paragraphs alone
FallbackToWholeDocumentInParagraphs ==
  ( /\ extract_out.status = "list" /\ extract_out.fn = "paragraphs"
    /\ ContainerYieldsNone
    /\ \E i \in DOMAIN doc_in.outside : Qualifies(doc_in.outside[i]) )
  => Returned # << >>

----------------------------------------------------------------------------
(* Paywall hits over time: the clock moves, hits are recorded by            *)
(* record_paywall_hit alone or through _handle_paywall, feeds are removed.  *)

MaxClock == 8      \* the last day of the clock
MaxHandled == 6    \* paywall_hits rows ever created

PriorHits == PaywallHitThreshold - 2
FirstDay == PaywallWindowDays - 1

\* feed ids a caller can hold: ids the store has handed out
KnownFeedIds == 1..db.feed_seq

RECURSIVE WithHitsOn(_, _, _, _)
\* n hits of feed f recorded on day t
WithHitsOn(d, f, n, t) ==
  IF n = 0 THEN d ELSE WithHitsOn(record_paywall_hit(d, f, "l0", t, FALSE).db, f, n - 1, t)

\* a store with two feeds on day FirstDay; the first feed was hit PriorHits
\* times, either on day 0 or today
HitsInit ==
  /\ LoopIdle /\ FetchIdle /\ ExtractIdle /\ CallsIdle
  /\ \E t \in {0, FirstDay} :
       db = WithHitsOn(add_feed(add_feed(EmptyDb, <<"http://", "a">>, <<"A">>, FALSE).db,
                                <<"http://", "e-acute">>, << >>, FALSE).db,
                       1, PriorHits, t)
  /\ now = FirstDay
  /\ op = Op("init", NoId, NULL, << >>, FALSE, FALSE)
  /\ ret = Ret(TRUE, NoId)
  /\ content_in = << >>
  /\ pw_out = "pending"

\* a day passes
Tick ==
  /\ now < MaxClock
  /\ now' = now + 1
  /\ UNCHANGED <<db, op, ret, call_vars, paywall_vars, fetch_vars, extract_vars, loop_vars>>

\* rss_monitor._handle_paywall(feed_id, feed_url, article_url)
HandlePaywall ==
  \E f \in KnownFeedIds, locked \in BOOLEAN, choice \in {"1", "2", "3"} :
    /\ db.hit_seq < MaxHandled
    /\ LET h == handle_paywall(db, f, << >>, "l1", now, locked, choice)
       IN  /\ db' = h.db
           /\ ret' = Ret(~h.raised, NoId)
           /\ prompt' = [asked |-> h.asked, recent |-> h.recent]
    /\ op' = Op("handle_paywall", f, NULL, << >>, locked, FALSE)
    /\ UNCHANGED <<now, conn_call, wp, sessions, key_call, import_call, paywall_vars, fetch_vars, extract_vars, loop_vars>>

\* db.record_paywall_hit(feed_id, article_url)
RecordHit ==
  \E f \in KnownFeedIds, locked \in BOOLEAN :
    /\ db.hit_seq < MaxHandled
    /\ LET r == record_paywall_hit(db, f, "l1", now, locked)
       IN  db' = r.db /\ ret' = Ret(~r.raised, NoId)
    /\ op' = Op("record_paywall_hit", f, NULL, << >>, locked, FALSE)
    /\ UNCHANGED <<now, call_vars, paywall_vars, fetch_vars, extract_vars, loop_vars>>

HitsNext ==
  \/ Tick
  \/ HandlePaywall
  \/ RecordHit

SpecHits == HitsInit /\ [][HitsNext]_vars

----------------------------------------------------------------------------
(* Properties of the paywall hits *)

HitsOf(d, f) == {h \in d.paywall_hits : h.feed_id = f}

\* hits of feed f that lie in the trailing window, counted on the rows
InWindow(d, f, t) ==
  Cardinality({h \in HitsOf(d, f) : t - h.hit_date <= PaywallWindowDays})

SameFeed(d1, d2, f) ==
  /\ (f \in FeedIds(d1)) = (f \in FeedIds(d2))
  /\ f \in FeedIds(d1) =>
       /\ d1.feeds[f].is_active = d2.feeds[f].is_active
       /\ d1.feeds[f].is_paywalled = d2.feeds[f].is_paywalled

\* C22: _handle_paywall records the hit first (the count it reads includes
\* the new hit), shows the operator prompt exactly when the feed then has at
\* least 5 hits in the trailing 7 days, and with fewer leaves the feed's
\* existence and its active and paywalled flags as they were.
C22_PromptIffThreshold ==
  [][(op'.name = "handle_paywall" /\ ~op'.locked /\ db'.hit_seq = db.hit_seq + 1) =>
       LET f == op'.feed
           then_recent == InWindow(db, f, now) + 1
       IN  /\ prompt'.recent = then_recent
           /\ prompt'.asked = (then_recent >= 5)
           /\ then_recent < 5 => SameFeed(db, db', f)
           /\ \/ \E h \in db'.paywall_hits : h.id = db.hit_seq + 1 /\ h.feed_id = f
              \/ f \notin FeedIds(db')]_vars

\* the fifth hit inside the window has brought up the prompt, after an
\* earlier call with four hits did not
C22_Witness ==
  /\ op.name = "handle_paywall" /\ ~op.locked
  /\ prompt.asked /\ prompt.recent = 5
  /\ \E h \in HitsOf(db, op.feed) : h.hit_date = now - PaywallWindowDays
  /\ Cardinality(HitsOf(db, op.feed)) = 5

----------------------------------------------------------------------------
(* Properties of the ingestion loop: failures and order *)

EntrySteps == {"entry", "extract", "paywall", "rewrite", "save", "publish", "mark"}

\* the loop stays with the entry it is handling
StaysWithEntry ==
  fi' = fi /\ ei' = ei /\ entries' = entries /\ pc' \in EntrySteps

\* the loop goes on to the unit of work that follows the current entry
GoesToNextUnit ==
  \/ ei < Len(entries) /\ ei' = ei + 1 /\ fi' = fi /\ entries' = entries /\ pc' = "entry"
  \/ ei = Len(entries) /\ fi < Len(active_feeds) /\ fi' = fi + 1 /\ pc' = "feed"
  \/ ei = Len(entries) /\ fi = Len(active_feeds) /\ fi' = fi /\ pc' = "sleep"

\* C23: whatever happens while an entry is handled (a store fault, a failed
\* extraction, a failing rewrite or publisher), the loop either goes on with
\* that entry or moves to the very next entry, else the next feed, else the
\* end of the pass; a feed that yields nothing is followed by the next feed.
C23_FailureSkipsOneUnit ==
  [][/\ pc \in EntrySteps => (StaysWithEntry \/ GoesToNextUnit)
     /\ pc = "feed" =>
          \/ pc' = "feed" /\ fi' = fi
          \/ pc' = "entry" /\ fi' = fi /\ ei' = 1 /\ entries' # << >>
          \/ fi < Len(active_feeds) /\ fi' = fi + 1 /\ pc' = "feed"
          \/ fi = Len(active_feeds) /\ fi' = fi /\ pc' = "sleep"]_vars

\* in the first pass the save of a clean entry failed and that entry was
\* left unmarked; the entry after it was handled to the end and marked
C23_Witness ==
  /\ pass = 1 /\ run.fault
  /\ finished.result = "marked" /\ finished.inserted /\ ~finished.fault
  /\ \E l \in Links :
        /\ l # finished.link
        /\ fixture.page_of[l] = PageOk
        /\ <<"fetch", l>> \in work /\ <<"save", l>> \notin work
        /\ ~is_entry_processed(db, l)

\* the entries the feed being handled has served
RawEntries == fixture.feed_of[active_feeds[fi].url]

\* where the feed has the entry with this link
RawIndex(link) == CHOOSE i \in DOMAIN RawEntries : RawEntries[i].link = link

\* the entry was taken up in this pass
Handled(link) == <<"skip", link>> \in work \/ <<"fetch", link>> \in work

\* C24: within one feed the entries are taken up in the order in which the
\* feed returned them: the entries before the current one are those the
\* feed has before it, and none that the feed has later was taken up.
C24_FeedOrder ==
  (pc \in EntrySteps /\ fi = 1) =>
     /\ \A i \in DOMAIN entries : RawIndex(entries[i].link) = i
     /\ \A i \in DOMAIN entries : i < ei => Handled(entries[i].link)
     /\ \A i \in DOMAIN entries : i > ei => ~Handled(entries[i].link)

\* C24 as the code has it: the entries are the first max_entries of the
\* feed, ordered by published date, newest first, entries of one date in feed
\* order; they are taken up in that order.
C24_NewestFirstOrder ==
  (pc \in EntrySteps /\ fi = 1) =>
     /\ Len(entries) = Len(Take(RawEntries, max_entries))
     /\ \A i \in DOMAIN entries : RawIndex(entries[i].link) <= max_entries
     /\ \A i, j \in DOMAIN entries :
          i < j =>
            \/ entries[i].published_date > entries[j].published_date
            \/ /\ entries[i].published_date = entries[j].published_date
               /\ RawIndex(entries[i].link) < RawIndex(entries[j].link)
     /\ \A i \in DOMAIN entries : i < ei => Handled(entries[i].link)
     /\ \A i \in DOMAIN entries : i > ei => ~Handled(entries[i].link)

\* the feed lists the older entry first; the loop is at its second entry,
\* which is the feed's first, and has taken up the newer one before
C24_Witness ==
  /\ pc \in EntrySteps /\ fi = 1 /\ ei = 2
  /\ RawIndex(entries[2].link) = 1 /\ RawIndex(entries[1].link) = 2
  /\ entries[1].published_date > entries[2].published_date
  /\ Handled(entries[1].link)

----------------------------------------------------------------------------
(* The ingestion loop under interruption *)

\* KeyboardInterrupt while the loop runs: no handler below the one of the
\* while loop catches it (the handlers inside catch Exception), so the loop
\* is left at once from wherever it is
Interrupt ==
  /\ pc \notin {"idle", "stopped"}
  /\ pc' = "stopped"
  /\ UNCHANGED <<store_vars, call_vars, paywall_vars, fetch_vars, extract_vars, pass,
                 active_feeds, fi, entries, ei, entry_content, fixture, wp_cache, work,
                 marked_before, finished, run>>

InterruptNext == LoopNext \/ Interrupt

SpecInterrupt == LoopInit /\ [][InterruptNext]_vars

HasArticle(d, link) == \E a \in d.articles : a.url = link

\* C25: after an interruption of a run without store faults, restarts or
\* feed changes, every entry has either all of its writes (article saved,
\* entry marked processed) or none.
C25_InterruptLeavesWholeEntries ==
  (pc = "stopped" /\ ~run.fault /\ ~run.restarted /\ ~run.feeds_changed) =>
     \A l \in Links : HasArticle(db, l) = is_entry_processed(db, l)

\* the same statement of a run that reaches the end of a pass uninterrupted
UninterruptedPassLeavesWholeEntries ==
  (pc = "sleep" /\ ~run.fault /\ ~run.restarted /\ ~run.feeds_changed) =>
     \A l \in Links : HasArticle(db, l) = is_entry_processed(db, l)

----------------------------------------------------------------------------
(* Entries marked over time *)

StampsNext ==
  \/ Tick
  \/ MarkEntryProcessed
  \/ RemoveFeed

SpecStamps == RowsInit /\ [][StampsNext]_vars

Unstamped(feed) == [feed EXCEPT !.last_fetch = NoTime]

\* C26: a mark_entry_processed(f, ...) that meets no store fault leaves
\* feed f's last_fetch at the current time, whether the entry row was new or
\* a duplicate, changes no other column of f and nothing of any other feed;
\* and no step moves a feed's last_fetch to an earlier value.
C26_LastFetchAdvances ==
  [][/\ (op'.name = "mark_entry_processed" /\ ~op'.locked /\ now' = now) =>
          /\ FeedIds(db') = FeedIds(db)
          /\ \A g \in FeedIds(db) :
                IF g = op'.feed
                THEN /\ db'.feeds[g].last_fetch = now
                     /\ Unstamped(db'.feeds[g]) = Unstamped(db.feeds[g])
                ELSE db'.feeds[g] = db.feeds[g]
     /\ \A g \in FeedIds(db) \cap FeedIds(db') :
          db'.feeds[g].last_fetch >= db.feeds[g].last_fetch]_vars

\* a duplicate entry has just been marked for a feed stamped on an earlier
\* day, and the other feed keeps the stamp of an earlier day
C26_Witness ==
  /\ op.name = "mark_entry_processed" /\ ~op.locked /\ ~op.fresh
  /\ op.feed \in FeedIds(db)
  /\ db.feeds[op.feed].last_fetch = now
  /\ \E r \in db.processed_entries :
        r.entry_id = op.entry /\ r.feed_id = op.feed /\ r.processed_at < now
  /\ \E g \in FeedIds(db) :
        g # op.feed /\ db.feeds[g].last_fetch >= 0 /\ db.feeds[g].last_fetch < now

----------------------------------------------------------------------------
(* Properties of the paywall hits: rows and counter *)

\* C27: a record_paywall_hit(f, url) that meets no store fault appends
\* exactly one paywall_hits row, for f and dated now, modifies no existing
\* row and raises f's counter by one; for every existing feed the counter
\* equals the number of its hit rows, and get_recent_paywall_hits(f, 7) is
\* the number of f's rows recorded inside the trailing window.
C27_HitRowsAndCounter ==
  /\ [](\A f \in FeedIds(db) :
          /\ db.feeds[f].paywall_hits = Cardinality(HitsOf(db, f))
          /\ get_recent_paywall_hits(db, f, PaywallWindowDays, now) = InWindow(db, f, now))
  /\ [][(op'.name = "record_paywall_hit" /\ ~op'.locked /\ now' = now) =>
          /\ db.paywall_hits \subseteq db'.paywall_hits
          /\ Cardinality(db'.paywall_hits \ db.paywall_hits) = 1
          /\ \A h \in db'.paywall_hits \ db.paywall_hits :
                h.feed_id = op'.feed /\ h.hit_date = now
          /\ FeedIds(db') = FeedIds(db)
          /\ \A g \in FeedIds(db) :
                db'.feeds[g].paywall_hits =
                  db.feeds[g].paywall_hits + (IF g = op'.feed THEN 1 ELSE 0)]_vars

\* six hits of one feed, all recorded within two days, and the count over
\* the trailing seven days is six
C27_Witness ==
  /\ op.name = "record_paywall_hit" /\ ~op.locked
  /\ op.feed \in FeedIds(db)
  /\ Cardinality(HitsOf(db, op.feed)) = 6
  /\ \A h \in HitsOf(db, op.feed) : now - h.hit_date < 2
  /\ \E h \in HitsOf(db, op.feed) : h.hit_date = now
  /\ \E h \in HitsOf(db, op.feed) : h.hit_date = now - 1
  /\ get_recent_paywall_hits(db, op.feed, PaywallWindowDays, now) = 6
  /\ db.feeds[op.feed].paywall_hits = 6

----------------------------------------------------------------------------
(* A mutating store operation meeting a locked database.  Four of the       *)
(* operations open their connection through _get_connection, which tries    *)
(* again; three call sqlite3.connect themselves.                            *)

conn_max_retries == 5
conn_retry_delay == 1
MaxStoreCalls == 3

MutatingOps ==
  { "add_feed", "mark_entry_processed", "record_paywall_hit", "mark_feed_as_paywalled",
    "update_feed_status", "remove_feed", "save_article" }

\* the operations written as "with self._get_connection() as conn"
UsesGetConnection == { "add_feed", "update_feed_status", "remove_feed", "save_article" }

\* the operations whose body is inside try/except Exception
CatchesException == MutatingOps \ { "record_paywall_hit" }

RECURSIVE Pow2(_)
Pow2(n) == IF n = 0 THEN 1 ELSE 2 * Pow2(n - 1)

\* retry_delay after it was doubled attempt times
BackoffDelay(attempt) == conn_retry_delay * Pow2(attempt)

ConnInit ==
  /\ LoopIdle /\ FetchIdle /\ ExtractIdle /\ CallsIdle
  /\ db = EmptyDb
  /\ now = 0
  /\ op = Op("init", NoId, NULL, << >>, FALSE, FALSE)
  /\ ret = Ret(TRUE, NoId)
  /\ content_in = << >>
  /\ pw_out = "pending"

\* a caller invokes one of the operations
StoreCall ==
  /\ conn_call.pc \in {"idle", "done"}
  /\ conn_call.calls < MaxStoreCalls
  /\ \E o \in MutatingOps :
       conn_call' = [pc |-> "connect", op |-> o, attempt |-> 0, sleeps |-> << >>,
                     result |-> "pending", calls |-> conn_call.calls + 1]
  /\ UNCHANGED <<store_vars, prompt, wp, sessions, key_call, import_call, paywall_vars, fetch_vars, extract_vars, loop_vars>>

\* how the operation ends once the lock error has left the connection code
lock_error_outcome(o) == IF o \in CatchesException THEN "failed" ELSE "raised"

\* one attempt to get the connection and run the statements; locked tells
\* whether it meets 'database is locked'
connect_attempt(c, locked) ==
  IF ~locked THEN [c EXCEPT !.pc = "done", !.attempt = @ + 1, !.result = "ok"]
  ELSE IF c.op \in UsesGetConnection /\ c.attempt < conn_max_retries - 1
  THEN [c EXCEPT !.attempt = @ + 1, !.sleeps = Append(@, BackoffDelay(c.attempt))]
  ELSE [c EXCEPT !.pc = "done", !.attempt = @ + 1, !.result = lock_error_outcome(c.op)]

ConnectAttempt ==
  /\ conn_call.pc = "connect"
  /\ \E locked \in BOOLEAN : conn_call' = connect_attempt(conn_call, locked)
  /\ UNCHANGED <<store_vars, prompt, wp, sessions, key_call, import_call, paywall_vars, fetch_vars, extract_vars, loop_vars>>

ConnNext == StoreCall \/ ConnectAttempt

SpecLocked == ConnInit /\ [][ConnNext]_vars

----------------------------------------------------------------------------
(* Properties of the operations under a locked database *)

\* C28: a mutating operation that ends without success has met the lock on
\* each of 5 attempts, has waited 1, 2, 4 and 8 seconds between them, and
\* reports the failure to its caller by its return value.
C28_LockedIsRetried ==
  (conn_call.pc = "done" /\ conn_call.result # "ok") =>
     /\ conn_call.attempt = 5
     /\ conn_call.sleeps = <<1, 2, 4, 8>>
     /\ conn_call.result = "failed"

\* the same statement of the operations that go through _get_connection
LockedIsRetriedThroughGetConnection ==
  (conn_call.pc = "done" /\ conn_call.result # "ok" /\ conn_call.op \in UsesGetConnection) =>
     /\ conn_call.attempt = 5
     /\ conn_call.sleeps = <<1, 2, 4, 8>>
     /\ conn_call.result = "failed"

----------------------------------------------------------------------------
(* The WordPress poster and the site it posts to *)

MaxPosts == 3          \* posts ever created on the site
MaxPosterCalls == 4    \* create_post calls

\* create_post that posts without looking into the cache
WordPressPoster_create_post_no_cache(w, url, has_title, outcome, save_ok) ==
  LET w1 == [w EXCEPT !.calls = @ + 1]
  IN  IF ~has_title THEN [w1 EXCEPT !.last = PosterCall(url, has_title, FALSE, NoPost)]
      ELSE IF outcome = "created"
      THEN LET cache2 == [w.cache EXCEPT ![url] = w.next_id]
           IN  [w1 EXCEPT !.cache = cache2,
                          !.file = IF save_ok THEN cache2 ELSE @,
                          !.remote = @ \cup {w.next_id},
                          !.created = @ \cup {[id |-> w.next_id, url |-> url]},
                          !.next_id = @ + 1,
                          !.last = PosterCall(url, has_title, TRUE, w.next_id)]
      ELSE [w1 EXCEPT !.last = PosterCall(url, has_title, TRUE, NoPost)]

\* WordPressPoster.create_post(article_data): has_title tells whether the
\* article data has a title and content, outcome is the site's answer to
\* the POST, save_ok whether the cache file could be written
WordPressPoster_create_post(w, url, has_title, outcome, save_ok) ==
  LET w1 == [w EXCEPT !.calls = @ + 1]
  IN  IF ~has_title THEN [w1 EXCEPT !.last = PosterCall(url, has_title, FALSE, NoPost)]
      ELSE IF w.cache[url] # NoPost
      THEN [w1 EXCEPT !.last = PosterCall(url, has_title, FALSE, w.cache[url])]
      ELSE IF outcome = "created"
      THEN LET cache2 == [w.cache EXCEPT ![url] = w.next_id]
           IN  [w1 EXCEPT !.cache = cache2,
                          !.file = IF save_ok THEN cache2 ELSE @,
                          !.remote = @ \cup {w.next_id},
                          !.created = @ \cup {[id |-> w.next_id, url |-> url]},
                          !.next_id = @ + 1,
                          !.last = PosterCall(url, has_title, TRUE, w.next_id)]
      ELSE [w1 EXCEPT !.last = PosterCall(url, has_title, TRUE, NoPost)]

PosterInit ==
  /\ LoopIdle /\ FetchIdle /\ ExtractIdle /\ CallsIdle
  /\ db = EmptyDb
  /\ now = 0
  /\ op = Op("init", NoId, NULL, << >>, FALSE, FALSE)
  /\ ret = Ret(TRUE, NoId)
  /\ content_in = << >>
  /\ pw_out = "pending"

\* wordpress.create_post(article_data=..., status=...)
CreatePost ==
  /\ wp.calls < MaxPosterCalls /\ wp.next_id <= MaxPosts
  /\ \E url \in WpUrls, has_title \in BOOLEAN,
        outcome \in {"created", "refused", "exception"}, save_ok \in BOOLEAN :
       wp' = WordPressPoster_create_post(wp, url, has_title, outcome, save_ok)
  /\ UNCHANGED <<store_vars, prompt, conn_call, sessions, key_call, import_call, paywall_vars, fetch_vars, extract_vars,
                 loop_vars>>

\* a post is deleted on the site
RemoteDelete ==
  /\ \E id \in wp.remote : wp' = [wp EXCEPT !.remote = @ \ {id}]
  /\ UNCHANGED <<store_vars, prompt, conn_call, sessions, key_call, import_call, paywall_vars, fetch_vars, extract_vars,
                 loop_vars>>

PosterNext == CreatePost \/ RemoteDelete

SpecPoster == PosterInit /\ [][PosterNext]_vars

----------------------------------------------------------------------------
(* Properties of the poster *)

IsCreatePost == wp'.calls = wp.calls + 1

\* C29: create_post skips the request that creates a post only when the
\* post recorded for the url still exists on the site; when that post is
\* gone (or none is recorded) a call with a title and content posts.
C29_SkipsOnlyExistingPost ==
  [][(IsCreatePost /\ wp'.last.has_title) =>
        (~wp'.last.requested <=>
           (wp.cache[wp'.last.url] # NoPost /\ wp.cache[wp'.last.url] \in wp.remote))]_vars

----------------------------------------------------------------------------
(* Properties of the ingestion loop: the content of an emitted article *)

\* the content _extract_article_content returns for the page behind a link
OriginalContent(link) ==
  join_paragraphs(Take(fixture.page_of[link].paragraphs, MaxParagraphs))

Rewritten(link) == <<"rewrite", link>> \in work

SavedContent(link) == {a.content : a \in {b \in db.articles : b.url = link}}

\* C31: whether the rewriter returns a result, returns none or raises, the
\* loop goes on to save the entry; an entry whose rewrite failed is saved
\* with the content that was extracted, and goes on to be published and
\* marked with it.
C31_RewriteFailureKeepsOriginal ==
  /\ []((pc \in {"save", "publish", "mark"} /\ ~Rewritten(entries[ei].link)) =>
          entry_content = OriginalContent(entries[ei].link))
  /\ []((pc \in {"publish", "mark"} /\ ~Rewritten(entries[ei].link)) =>
          SavedContent(entries[ei].link) = {ContentLen(OriginalContent(entries[ei].link))})
  /\ [][pc = "rewrite" => (pc' = "save" /\ fi' = fi /\ ei' = ei)]_vars

\* an entry whose rewrite failed has been saved with its extracted content
\* and published, and is about to be marked
C31_Witness ==
  /\ pc = "mark" /\ ~Rewritten(entries[ei].link)
  /\ <<"publish", entries[ei].link>> \in work
  /\ SavedContent(entries[ei].link) = {ContentLen(OriginalContent(entries[ei].link))}
  /\ ContentLen(entry_content) > 0

\* the step inserts the processed_entries row of the current entry
MarksCurrentEntry ==
  /\ pc = "mark"
  /\ ~is_entry_processed(db, entry_id(entries[ei]))
  /\ is_entry_processed(db', entry_id(entries[ei]))

\* C34: an entry is marked processed at most once, and only after its
\* article was saved and, when publishing is on, its post was created; an
\* entry whose save or publish attempt failed is not marked in that pass.
C34_MarkedOnlyAfterSuccess ==
  /\ [][MarksCurrentEntry =>
          /\ <<"save", entries[ei].link>> \in work
          /\ <<"publish_failed", entries[ei].link>> \notin work]_vars
  /\ [][\A id \in ProcessedIds(db') \ ProcessedIds(db) : <<"insert", id>> \notin work]_vars

\* the part of C34 about the save: a row is inserted into processed_entries
\* by the mark step only, after the article of the entry was saved, and an
\* entry whose save failed is left unmarked by that step
MarkedOnlyAfterSave ==
  /\ [][ProcessedIds(db') \ ProcessedIds(db) # {} =>
          (MarksCurrentEntry /\ <<"save", entries[ei].link>> \in work)]_vars
  /\ [][(pc = "save" /\ pc' # "publish") => ProcessedIds(db') \subseteq ProcessedIds(db)]_vars

\* the feed was marked paywalled or removed since the run began (the run
\* begins with every feed present and none paywalled)
Dropped(d, f) == f \notin FeedIds(d) \/ d.feeds[f].is_paywalled

\* the article, processed-entry and paywall-hit rows that reference a feed
RowsOfFeed(d, f) ==
  [articles |-> {a \in d.articles : a.feed_id = f},
   processed_entries |-> {r \in d.processed_entries : r.feed_id = f},
   paywall_hits |-> {h \in d.paywall_hits : h.feed_id = f}]

\* C35: once a feed has been marked paywalled or removed during a run, no
\* step of that run writes an article, processed-entry or paywall-hit row
\* that references the feed.
C35_NoRowsAfterFeedDropped ==
  [][\A f \in 1..db.feed_seq :
       Dropped(db, f) =>
         /\ RowsOfFeed(db', f).articles \subseteq RowsOfFeed(db, f).articles
         /\ RowsOfFeed(db', f).processed_entries \subseteq RowsOfFeed(db, f).processed_entries
         /\ RowsOfFeed(db', f).paywall_hits \subseteq RowsOfFeed(db, f).paywall_hits]_vars

\* a pass that starts after the feed was dropped leaves the feed alone: the
\* feed is not among the feeds the pass selects
DroppedFeedIsNotSelectedAgain ==
  [][pc = "select" =>
       \A i \in DOMAIN active_feeds' : ~Dropped(db, active_feeds'[i].id)]_vars

\* the paywall_hits rows a step adds
NewHits == db'.paywall_hits \ db.paywall_hits

\* C36: an article adds at most one hit to the trailing-window count of its
\* feed, however many passes meet it: no step records a hit for a feed and
\* an article url that already have a hit inside the window, and no step
\* records more than one hit.
C36_OneHitPerArticle ==
  [][/\ Cardinality(NewHits) <= 1
     /\ \A h \in NewHits :
          ~\E g \in db.paywall_hits :
             /\ g.feed_id = h.feed_id /\ g.url = h.url
             /\ g.hit_date >= now - PaywallWindowDays]_vars

\* the part of C36 about one pass: a step records at most one hit, the hit
\* is for the current entry of the current feed, and the step is the last
\* one of that entry in the pass
OneHitPerEntryPerPass ==
  [][NewHits # {} =>
       /\ Cardinality(NewHits) = 1
       /\ pc \in {"extract", "paywall"}
       /\ \A h \in NewHits : h.url = entries[ei].link /\ h.feed_id = active_feeds[fi].id
       /\ pc' \in {"entry", "feed", "sleep"}
       /\ (pc' = "entry" => ei' = ei + 1)]_vars

\* C37: the content saved and published for an article is never empty: once
\* the article of the current entry is saved, the stored content and the
\* content handed to the publisher have text.
C37_EmittedContentNotEmpty ==
  pc \in {"publish", "mark"} =>
    /\ ContentLen(entry_content) > 0
    /\ \A c \in SavedContent(entries[ei].link) : c > 0

\* the only saved articles without text are those whose rewrite succeeded
EmptyOnlyAfterRewrite ==
  (pc \in {"publish", "mark"} /\ ContentLen(entry_content) = 0) => Rewritten(entries[ei].link)

----------------------------------------------------------------------------
(* Properties of the feed administration: a feed id that does not exist *)

\* the step is a call of one of these operations for a feed that is not there
CallOnAbsentFeed(names) == op'.name \in names /\ op'.feed \notin FeedIds(db)

\* C38: update_feed_status, mark_feed_as_paywalled and remove_feed called
\* with a feed id that does not exist return false and leave the store as
\* it was.
C38_AbsentFeedIsRefused ==
  [][CallOnAbsentFeed({"update_feed_status", "mark_feed_as_paywalled", "remove_feed"}) =>
       (~ret'.ok /\ db' = db)]_vars

\* update_feed_status and remove_feed do so, and mark_feed_as_paywalled
\* leaves the store as it was
AbsentFeedIsLeftAlone ==
  /\ [][CallOnAbsentFeed({"update_feed_status", "remove_feed"}) => (~ret'.ok /\ db' = db)]_vars
  /\ [][CallOnAbsentFeed({"mark_feed_as_paywalled"}) => db' = db]_vars

----------------------------------------------------------------------------
(* add_feed on two connections at once.  Each statement is atomic; the
   SELECT runs outside a transaction, and the INSERT opens the transaction
   that conn.commit() ends, so another connection's statements may fall
   between the SELECT and the INSERT. *)

MaxAddCalls == 2     \* add_feed calls per connection

ConcUrls == { <<"http://", "a">>, <<"http://", "A">>, <<"http://", "b">>, <<" ">> }

\* add_feed up to the connection: the empty-url guard and url.strip()
BeginAddFeed(c) ==
  \E u \in ConcUrls, n \in Names :
    /\ sessions[c].pc = "idle" /\ sessions[c].calls < MaxAddCalls
    /\ IF u = << >> \/ strip(u) = << >>
       THEN /\ sessions' = [sessions EXCEPT ![c].calls = @ + 1]
            /\ ret' = Ret(FALSE, NoId)
       ELSE /\ sessions' = [sessions EXCEPT ![c] = [pc |-> "connected", url |-> strip(u),
                                                    name |-> n, calls |-> @.calls + 1]]
            /\ ret' = ret
    /\ op' = Op("add_feed", NoId, NULL, u, FALSE, FALSE)
    /\ UNCHANGED <<db, now, prompt, conn_call, wp, key_call, import_call, paywall_vars, fetch_vars, extract_vars, loop_vars>>

\* SELECT id, name FROM feeds WHERE LOWER(url) = LOWER(?), and the format check
SelectExisting(c) ==
  /\ sessions[c].pc = "connected"
  /\ LET url == sessions[c].url
         existing == {i \in FeedIds(db) : sql_lower(db.feeds[i].url) = sql_lower(url)}
     IN  IF existing # {}
         THEN /\ ret' = Ret(TRUE, CHOOSE i \in existing : \A j \in existing : i <= j)
              /\ sessions' = [sessions EXCEPT ![c].pc = "idle"]
         ELSE IF ~startswith_http(url)
         THEN /\ ret' = Ret(FALSE, NoId)
              /\ sessions' = [sessions EXCEPT ![c].pc = "idle"]
         ELSE /\ ret' = ret
              /\ sessions' = [sessions EXCEPT ![c].pc = "checked"]
  /\ UNCHANGED <<db, now, op, prompt, conn_call, wp, key_call, import_call, paywall_vars, fetch_vars, extract_vars, loop_vars>>

\* INSERT INTO feeds ... and conn.commit(); url TEXT UNIQUE compares bytes,
\* and a violation is the IntegrityError add_feed turns into None
InsertFeed(c) ==
  /\ sessions[c].pc = "checked"
  /\ db.feed_seq < MaxFeedSeq
  /\ LET url == sessions[c].url
         name == sessions[c].name
     IN  IF \E i \in FeedIds(db) : db.feeds[i].url = url
         THEN /\ db' = db
              /\ ret' = Ret(FALSE, NoId)
         ELSE LET id == db.feed_seq + 1
                  row == [url |-> url,
                          name |-> IF name = << >> THEN url ELSE name,
                          is_active |-> TRUE, is_paywalled |-> FALSE,
                          last_fetch |-> NoTime,
                          paywall_hits |-> 0, last_paywall_hit |-> NoTime]
              IN  /\ db' = [db EXCEPT !.feeds = db.feeds @@ (id :> row), !.feed_seq = id]
                  /\ ret' = Ret(TRUE, id)
  /\ sessions' = [sessions EXCEPT ![c].pc = "idle"]
  /\ UNCHANGED <<now, op, prompt, conn_call, wp, key_call, import_call, paywall_vars, fetch_vars, extract_vars, loop_vars>>

ConcNext ==
  \E c \in Conns : BeginAddFeed(c) \/ SelectExisting(c) \/ InsertFeed(c)

SpecConcurrent == StoreInit /\ [][ConcNext]_vars

\* C32: whatever the interleaving of two add_feed calls, no two rows of the
\* feeds table hold urls that differ only in letter case.
C32_OneRowPerUrlUnderConcurrency ==
  \A i, j \in FeedIds(db) :
    sql_lower(db.feeds[i].url) = sql_lower(db.feeds[j].url) => i = j

----------------------------------------------------------------------------
(* The dedup key of a feed item, over the runs that meet the item *)

MaxRuns == 3     \* runs that meet the same feed item

\* a feed item as the parser hands it over: its id when the feed has one,
\* its link ('' when it has none), its title and its date
RawItem(id, link, title, date) == [id |-> id, link |-> link, title |-> title, date |-> date]

RawItems ==
  { RawItem(id, link, title, date) :
      id \in {NULL, "g1", "g2"}, link \in {"", "l1", "l2"}, title \in {"t1", "t2"},
      date \in {0, 1} }

\* the dict get_entries builds for an item: title, link, published_date,
\* author, summary, tags and source_feed; the item's id is not copied
article_data_of(item) == Entry(item.link, item.date)

KeysInit ==
  /\ LoopIdle /\ FetchIdle /\ ExtractIdle
  /\ db = EmptyDb
  /\ now = 0
  /\ op = Op("init", NoId, NULL, << >>, FALSE, FALSE)
  /\ ret = Ret(TRUE, NoId)
  /\ prompt = NoPrompt /\ conn_call = NoConnCall /\ wp = NewPoster
  /\ sessions = [c \in Conns |-> IdleSession]
  /\ key_call \in {[raw |-> item, keys |-> << >>] : item \in RawItems}
  /\ import_call = NoImport
  /\ content_in = << >>
  /\ pw_out = "pending"

\* one run meets the item: get_entries builds its dict, the loop computes
\* entry_id from the dict
ComputeKey ==
  /\ key_call.raw # << >>
  /\ Len(key_call.keys) < MaxRuns
  /\ key_call' = [key_call EXCEPT !.keys = Append(@, entry_id(article_data_of(key_call.raw)))]
  /\ UNCHANGED <<store_vars, prompt, conn_call, wp, sessions, import_call, paywall_vars, fetch_vars,
                 extract_vars, loop_vars>>

\* between two runs the feed serves the same item again, with its title or
\* date edited; its id and its link stay
Republish ==
  /\ key_call.raw # << >>
  /\ \E item \in RawItems :
       /\ item.id = key_call.raw.id /\ item.link = key_call.raw.link
       /\ item # key_call.raw
       /\ key_call' = [key_call EXCEPT !.raw = item]
  /\ UNCHANGED <<store_vars, prompt, conn_call, wp, sessions, import_call, paywall_vars, fetch_vars,
                 extract_vars, loop_vars>>

KeysNext == ComputeKey \/ Republish

SpecKeys == KeysInit /\ [][KeysNext]_vars

\* C33: the dedup key of an item is the id the feed supplies for it, and its
\* link only when the feed supplies no id; every run computes the same key
\* for the item.
C33_KeyIsIdElseLink ==
  \A i \in DOMAIN key_call.keys :
    /\ key_call.keys[i] = IF key_call.raw.id # NULL THEN key_call.raw.id ELSE key_call.raw.link
    /\ key_call.keys[i] = key_call.keys[1]

\* what the code does: the key is the item's link in every run, whether or
\* not the feed supplies an id
KeyIsLinkInEveryRun ==
  \A i \in DOMAIN key_call.keys : key_call.keys[i] = key_call.raw.link

----------------------------------------------------------------------------
(* import_feeds_from_csv: the counters of an import *)

MaxRows == 2         \* rows of a CSV file
MaxImports == 2      \* imports in a row

\* the url column of a row: a url, the same url in another row, a url whose
\* scheme is written in capitals, a blank cell
CsvUrls == { <<"http://", "a">>, <<"http://", "b">>, <<"HTTP://", "A">>, <<" ">> }

CsvFiles == UNION {[1..n -> CsvUrls] : n \in 0..MaxRows}

\* the loop over the rows: stats are the counters the function returns;
\* created counts the rows that made a new feed row and existed the rows
\* whose url was in the store when the row was read
RECURSIVE import_rows(_, _, _, _, _, _)
import_rows(d, rows, stats, created, existed, locked) ==
  IF rows = << >> THEN [db |-> d, stats |-> stats, created |-> created, existed |-> existed]
  ELSE
    LET url == strip(Head(rows))
        s1 == [stats EXCEPT !.total = @ + 1]
    IN  IF url = << >>
        THEN import_rows(d, Tail(rows), [s1 EXCEPT !.failed = @ + 1], created, existed, locked)
        ELSE
          LET r == add_feed(d, url, url, locked)
              was_there == \E i \in FeedIds(d) : sql_lower(d.feeds[i].url) = sql_lower(url)
              is_new == r.db.feed_seq > d.feed_seq
          IN  import_rows(r.db, Tail(rows),
                          IF r.ret.ok THEN [s1 EXCEPT !.added = @ + 1]
                                      ELSE [s1 EXCEPT !.duplicates = @ + 1],
                          created + (IF is_new THEN 1 ELSE 0),
                          existed + (IF was_there THEN 1 ELSE 0), locked)

\* stats = db.import_feeds_from_csv(csv_path)
ImportFeedsFromCsv ==
  \E csv \in CsvFiles, locked \in BOOLEAN :
    /\ import_call.imports < MaxImports
    /\ LET r == import_rows(db, csv, NoStats, 0, 0, locked)
       IN  /\ db' = r.db
           /\ import_call' = [csv |-> csv, before |-> import_call.csv, stats |-> r.stats,
                              created |-> r.created, existed |-> r.existed,
                              imports |-> import_call.imports + 1,
                              clean |-> import_call.clean /\ ~locked]
    /\ op' = Op("import_feeds_from_csv", NoId, NULL, << >>, locked, FALSE)
    /\ UNCHANGED <<now, ret, prompt, conn_call, wp, sessions, key_call, paywall_vars,
                   fetch_vars, extract_vars, loop_vars>>

ImportNext == ImportFeedsFromCsv

SpecImport == StoreInit /\ [][ImportNext]_vars

\* the file of the last import was also the file of the import before it,
\* and the store was not locked during either
ImportedTwice ==
  import_call.imports = 2 /\ import_call.csv = import_call.before /\ import_call.clean

\* C39: after every import total = added + duplicates + failed, added is
\* the number of rows that created a feed row, duplicates the number of rows
\* whose url was already in the store, and the second import of the same
\* file adds nothing.
C39_ImportCounters ==
  import_call.imports > 0 =>
    /\ import_call.stats.total =
         import_call.stats.added + import_call.stats.duplicates + import_call.stats.failed
    /\ import_call.stats.added = import_call.created
    /\ import_call.stats.duplicates = import_call.existed
    /\ ImportedTwice => import_call.stats.added = 0

\* the part of C39 that holds: every row is counted once, and the second
\* import of the same file creates no feed row
ImportCountsEveryRowOnce ==
  import_call.imports > 0 =>
    /\ import_call.stats.total = Len(import_call.csv)
    /\ import_call.stats.total =
         import_call.stats.added + import_call.stats.duplicates + import_call.stats.failed
    /\ ImportedTwice => import_call.created = 0

====
